---------------------------- MODULE Spec2Model ----------------------------
(***************************************************************************)
(* Model of the E-Bank automation tool's core:                             *)
(*   - BankingElementScanner (src/src/element_scanner_day3.py): merge and  *)
(*     de-duplication of discovered elements, element processing, locator  *)
(*     generation and safety classification;                               *)
(*   - CompleteTestRunner (src/src/main.py): execution of a custom test    *)
(*     case, step by step, and derivation of the overall status.           *)
(*                                                                         *)
(* Python strings are sequences of one-character strings, so that          *)
(* lower(), "in" (substring), join and f-string formatting are computed    *)
(* as the code computes them.  Names of dictionary keys and enumeration    *)
(* values ('HIGH_RISK', 'passed', ...) are TLA+ strings.                   *)
(***************************************************************************)
EXTENDS Integers, Sequences, FiniteSets, TLC

VARIABLES
    \* ---- BankingElementScanner._process_element on one element ----
    element_data,          \* the (source, element, extra_info) input
    element_info,          \* what _process_element returned
    proc_pc,               \* "start" before the call, "done" after it
    \* ---- BankingElementScanner.scan_current_screen ----
    screen,                \* the session that is scanned: the elements on
                           \* screen and the queries that raise
    interactive_elements,  \* result of _find_interactive_elements
    xml_elements,          \* result of _parse_xml_hierarchy
    pattern_elements,      \* result of _find_elements_by_patterns
    all_elements,          \* result of _merge_and_deduplicate
    scan_results,          \* the dict scan_current_screen returns
    scan_pc,               \* "start" before the scan, "done" after it
    \* ---- CompleteTestRunner.execute_custom_test ----
    test_case,             \* the test case being run
    results,               \* the results dict
    run_pc,                \* position in execute_custom_test
    step_i,                \* the loop variable i (1-based)
    session_log,           \* the element operations invoked on the session
    progress_callback,     \* whether a progress callback was passed
    progress_log,          \* the calls of the progress callback, in order
    \* ---- CompleteTestRunner.execute_step on one step ----
    step_arg,              \* the step passed to execute_step
    view,                  \* the elements in view, in document order
    session,               \* how the session behaves during the step
    found_index,           \* what find_element_smart returned (0: None,
                           \* -1: it was not called)
    step_result,           \* the result dict execute_step returned
    element_ops,           \* the operations invoked on elements and the session
    step_pc,               \* "start" before the call, "done" after it
    \* ---- CustomTestBuilder and the worker of run_custom_test ----
    heap,                  \* the list objects: for each, the steps it holds
    test_steps,            \* self.test_steps: the list the builder refers to
    last_op,               \* the last builder operation, its index, the
                           \* steps before it and whether it raised
    built_case,            \* the test case build_test_case returned
    built_steps,           \* the steps that test case held when it was built
    worker_pc,             \* position of the worker thread (run_test)
    worker_i,              \* how many steps the worker's loop has taken
    worker_seen,           \* the steps the worker's loop has been given
    \* ---- BankingAutomationApp: the window and its worker threads ----
    app_driver,            \* self.driver is set (a session is connected)
    app_test_runner,       \* self.test_runner is set
    connect_btn,           \* state of the Connect button
    disconnect_btn,        \* state of the Disconnect button
    has_steps,             \* custom_test_builder.test_steps is not empty
    threads,               \* for each target, the threads alive running it
    dialog,                \* the message box shown last
    \* ---- BankingSafetyManager ----
    audit_log,             \* self.audit_log
    clock,                 \* the time stamps given out so far
    calls,                 \* the calls made to the manager
    safety_call            \* the last call, its arguments and its result

procVars == <<element_data, element_info, proc_pc>>
scanVars == <<screen, interactive_elements, xml_elements, pattern_elements,
              all_elements, scan_results, scan_pc>>
runVars  == <<test_case, results, run_pc, step_i, session_log,
              progress_callback, progress_log>>
stepVars == <<step_arg, view, session, found_index, step_result, element_ops,
              step_pc>>
builderVars == <<heap, test_steps, last_op, built_case, built_steps,
                 worker_pc, worker_i, worker_seen>>
appVars == <<app_driver, app_test_runner, connect_btn, disconnect_btn,
             has_steps, threads, dialog>>
safetyVars == <<audit_log, clock, calls, safety_call>>
vars     == <<procVars, scanVars, runVars, stepVars, builderVars,
              appVars,
              safetyVars>>

-----------------------------------------------------------------------------
(* Python values *)

\* Python's None (an attribute the element does not have).  It is a
\* one-element tuple holding a token that is no character, so it differs
\* from every string.
None == <<"<None>">>

\* str(v) as an f-string formats v: None is formatted as the text "None".
Format(v) == IF v = None THEN <<"N","o","n","e">> ELSE v

\* `v or ''`
OrEmpty(v) == IF v = None \/ v = <<>> THEN <<>> ELSE v

UpperCase == <<"A","B","C","D","E","F","G","H","I","J","K","L","M","N","O","P","Q","R","S","T","U","V","W","X","Y","Z">>
LowerCase == <<"a","b","c","d","e","f","g","h","i","j","k","l","m","n","o","p","q","r","s","t","u","v","w","x","y","z">>

\* the lowercase letter of every uppercase letter
ToLower ==
    [c \in { UpperCase[i] : i \in 1..Len(UpperCase) } |->
        LowerCase[CHOOSE i \in 1..Len(UpperCase) : UpperCase[i] = c]]

LowerChar(c) == IF c \in DOMAIN ToLower THEN ToLower[c] ELSE c

\* str.lower()
Lower(s) == [i \in 1..Len(s) |-> LowerChar(s[i])]

\* `sub in s` for strings
Contains(sub, s) ==
    \/ sub = <<>>
    \/ \E i \in 1..(Len(s) - Len(sub) + 1) :
            s[i] = sub[1] /\ SubSeq(s, i, i + Len(sub) - 1) = sub

\* ' '.join(parts)
RECURSIVE Join(_)
Join(parts) ==
    IF Len(parts) = 0 THEN <<>>
    ELSE IF Len(parts) = 1 THEN parts[1]
    ELSE parts[1] \o <<" ">> \o Join(Tail(parts))

\* the empty dict
EmptyDict == [k \in {} |-> <<>>]

\* dict.get(key, default)
Get(d, k, default) == IF k \in DOMAIN d THEN d[k] ELSE default

-----------------------------------------------------------------------------
(* BankingElementScanner.__init__: banking_patterns *)

HIGH_RISK_PATTERNS == <<
    <<"t","r","a","n","s","f","e","r">>, <<"s","e","n","d">>, <<"p","a","y">>, <<"w","i","t","h","d","r","a","w">>, <<"d","e","p","o","s","i","t">>, <<"c","o","n","f","i","r","m">>, <<"a","u","t","h","o","r","i","z","e">>,
    <<"s","u","b","m","i","t">>, <<"e","x","e","c","u","t","e">>, <<"p","a","s","s","w","o","r","d">>, <<"p","i","n">>, <<"c","v","v">>, <<"o","t","p">>, <<"t","o","k","e","n">>, <<"b","i","o","m","e","t","r","i","c">>,
    <<"f","i","n","g","e","r","p","r","i","n","t">>, <<"f","a","c","e">>, <<"t","r","a","n","s","a","c","t","i","o","n">>, <<"a","m","o","u","n","t">>, <<"b","a","l","a","n","c","e">>, <<"a","c","c","o","u","n","t">> >>

MEDIUM_RISK_PATTERNS == <<
    <<"l","o","g","i","n">>, <<"s","i","g","n">>, <<"a","u","t","h","e","n","t","i","c","a","t","e">>, <<"v","e","r","i","f","y">>, <<"p","r","o","f","i","l","e">>, <<"s","e","t","t","i","n","g","s">>,
    <<"s","t","a","t","e","m","e","n","t">>, <<"h","i","s","t","o","r","y">>, <<"d","e","t","a","i","l","s">>, <<"i","n","f","o","r","m","a","t","i","o","n">>, <<"s","e","a","r","c","h">> >>

LOW_RISK_PATTERNS == <<
    <<"m","e","n","u">>, <<"h","o","m","e">>, <<"b","a","c","k">>, <<"c","l","o","s","e">>, <<"h","e","l","p">>, <<"a","b","o","u","t">>, <<"c","o","n","t","a","c","t">>, <<"s","u","p","p","o","r","t">>,
    <<"n","e","w","s">>, <<"n","o","t","i","f","i","c","a","t","i","o","n">>, <<"l","a","n","g","u","a","g","e">>, <<"t","h","e","m","e">>, <<"v","e","r","s","i","o","n">> >>

\* `for pattern in patterns: if pattern in all_text: return ...` from the
\* i-th pattern on: the index of the first pattern found in all_text, 0 when
\* the loop ends without a match.
RECURSIVE FirstPatternFrom(_, _, _)
FirstPatternFrom(patterns, all_text, i) ==
    IF i > Len(patterns) THEN 0
    ELSE IF Contains(patterns[i], all_text) THEN i
    ELSE FirstPatternFrom(patterns, all_text, i + 1)

FirstPattern(patterns, all_text) == FirstPatternFrom(patterns, all_text, 1)

-----------------------------------------------------------------------------
(* BankingElementScanner._classify_element_safety *)

\* AllText without the call of lower()
AllTextCaseSensitive(info) ==
    Join(<< info.resource_id, info.text, info.content_desc, info.class_name >>)

\* the text the keyword rules are matched against
AllText(info) ==
    Lower(Join(<< info.resource_id, info.text, info.content_desc, info.class_name >>))

\* ClassifyElementSafety with automation allowed for a password field
ClassifyElementSafetyPasswordAllowed(info) ==
    LET all_text == AllText(info)
        high     == FirstPattern(HIGH_RISK_PATTERNS, all_text)
        medium   == FirstPattern(MEDIUM_RISK_PATTERNS, all_text)
        low      == FirstPattern(LOW_RISK_PATTERNS, all_text)
    IN  IF high # 0 THEN
            [level |-> "HIGH_RISK",
             reason |-> <<"C","o","n","t","a","i","n","s"," ","h","i","g","h","-","r","i","s","k"," ","p","a","t","t","e","r","n",":"," ">> \o HIGH_RISK_PATTERNS[high],
             color |-> "red", automation_allowed |-> FALSE]
        ELSE IF medium # 0 THEN
            [level |-> "MEDIUM_RISK",
             reason |-> <<"C","o","n","t","a","i","n","s"," ","m","e","d","i","u","m","-","r","i","s","k"," ","p","a","t","t","e","r","n",":"," ">> \o MEDIUM_RISK_PATTERNS[medium],
             color |-> "orange", automation_allowed |-> TRUE, requires_caution |-> TRUE]
        ELSE IF low # 0 THEN
            [level |-> "LOW_RISK",
             reason |-> <<"C","o","n","t","a","i","n","s"," ","l","o","w","-","r","i","s","k"," ","p","a","t","t","e","r","n",":"," ">> \o LOW_RISK_PATTERNS[low],
             color |-> "green", automation_allowed |-> TRUE]
        ELSE IF info.password THEN
            [level |-> "HIGH_RISK", reason |-> <<"P","a","s","s","w","o","r","d"," ","i","n","p","u","t"," ","f","i","e","l","d">>,
             color |-> "red", automation_allowed |-> TRUE]
        ELSE IF info.clickable \/ Contains(<<"E","d","i","t","T","e","x","t">>, info.class_name) THEN
            [level |-> "UNKNOWN",
             reason |-> <<"I","n","t","e","r","a","c","t","i","v","e"," ","e","l","e","m","e","n","t"," ","-"," ","r","e","q","u","i","r","e","s"," ","m","a","n","u","a","l"," ","r","e","v","i","e","w">>,
             color |-> "gray", automation_allowed |-> TRUE, requires_review |-> TRUE]
        ELSE
            [level |-> "SAFE", reason |-> <<"N","o","n","-","i","n","t","e","r","a","c","t","i","v","e"," ","e","l","e","m","e","n","t">>,
             color |-> "blue", automation_allowed |-> TRUE]

\* lines 432-498
ClassifyElementSafety(info) ==
    LET all_text == AllText(info)
        high     == FirstPattern(HIGH_RISK_PATTERNS, all_text)
        medium   == FirstPattern(MEDIUM_RISK_PATTERNS, all_text)
        low      == FirstPattern(LOW_RISK_PATTERNS, all_text)
    IN  IF high # 0 THEN
            [level |-> "HIGH_RISK",
             reason |-> <<"C","o","n","t","a","i","n","s"," ","h","i","g","h","-","r","i","s","k"," ","p","a","t","t","e","r","n",":"," ">> \o HIGH_RISK_PATTERNS[high],
             color |-> "red", automation_allowed |-> FALSE]
        ELSE IF medium # 0 THEN
            [level |-> "MEDIUM_RISK",
             reason |-> <<"C","o","n","t","a","i","n","s"," ","m","e","d","i","u","m","-","r","i","s","k"," ","p","a","t","t","e","r","n",":"," ">> \o MEDIUM_RISK_PATTERNS[medium],
             color |-> "orange", automation_allowed |-> TRUE, requires_caution |-> TRUE]
        ELSE IF low # 0 THEN
            [level |-> "LOW_RISK",
             reason |-> <<"C","o","n","t","a","i","n","s"," ","l","o","w","-","r","i","s","k"," ","p","a","t","t","e","r","n",":"," ">> \o LOW_RISK_PATTERNS[low],
             color |-> "green", automation_allowed |-> TRUE]
        ELSE IF info.password THEN
            [level |-> "HIGH_RISK", reason |-> <<"P","a","s","s","w","o","r","d"," ","i","n","p","u","t"," ","f","i","e","l","d">>,
             color |-> "red", automation_allowed |-> FALSE]
        ELSE IF info.clickable \/ Contains(<<"E","d","i","t","T","e","x","t">>, info.class_name) THEN
            [level |-> "UNKNOWN",
             reason |-> <<"I","n","t","e","r","a","c","t","i","v","e"," ","e","l","e","m","e","n","t"," ","-"," ","r","e","q","u","i","r","e","s"," ","m","a","n","u","a","l"," ","r","e","v","i","e","w">>,
             color |-> "gray", automation_allowed |-> TRUE, requires_review |-> TRUE]
        ELSE
            [level |-> "SAFE", reason |-> <<"N","o","n","-","i","n","t","e","r","a","c","t","i","v","e"," ","e","l","e","m","e","n","t">>,
             color |-> "blue", automation_allowed |-> TRUE]

-----------------------------------------------------------------------------
(* BankingElementScanner._generate_locators *)

\* RecommendedLocator with text preferred to accessibility_id (the order in
\* which _generate_locators adds the locators)
RecommendedLocatorInsertionOrder(locators) ==
    IF "resource_id" \in DOMAIN locators THEN "resource_id"
    ELSE IF "text" \in DOMAIN locators THEN "text"
    ELSE IF "accessibility_id" \in DOMAIN locators THEN "accessibility_id"
    ELSE "class_name"

\* the `recommended` key: resource_id, else accessibility_id, else text,
\* else class_name (whether or not a class_name locator was added)
RecommendedLocator(locators) ==
    IF "resource_id" \in DOMAIN locators THEN "resource_id"
    ELSE IF "accessibility_id" \in DOMAIN locators THEN "accessibility_id"
    ELSE IF "text" \in DOMAIN locators THEN "text"
    ELSE "class_name"

GenerateLocators(info) ==
    LET byId   == IF info.resource_id # <<>>
                  THEN ("resource_id" :> info.resource_id) @@
                       ("xpath_resource_id" :>
                            <<"/","/","*","[","@","r","e","s","o","u","r","c","e","-","i","d","=","'">> \o info.resource_id \o <<"'","]">>)
                  ELSE EmptyDict
        byText == IF info.text # <<>>
                  THEN ("text" :> info.text) @@
                       ("xpath_text" :> <<"/","/","*","[","@","t","e","x","t","=","'">> \o info.text \o <<"'","]">>)
                  ELSE EmptyDict
        byDesc == IF info.content_desc # <<>>
                  THEN ("accessibility_id" :> info.content_desc) @@
                       ("xpath_content_desc" :>
                            <<"/","/","*","[","@","c","o","n","t","e","n","t","-","d","e","s","c","=","'">> \o info.content_desc \o <<"'","]">>)
                  ELSE EmptyDict
        byCls  == IF info.class_name # <<>>
                  THEN ("class_name" :> info.class_name) ELSE EmptyDict
        byBnd  == IF info.bounds # <<>>
                  THEN ("bounds" :> info.bounds) ELSE EmptyDict
        combined_locators ==
            (IF info.resource_id # <<>> /\ info.text # <<>>
             THEN << <<"/","/","*","[","@","r","e","s","o","u","r","c","e","-","i","d","=","'">> \o info.resource_id
                        \o <<"'"," ","a","n","d"," ","@","t","e","x","t","=","'">> \o info.text \o <<"'","]">> >>
             ELSE <<>>)
            \o
            (IF info.class_name # <<>> /\ info.text # <<>>
             THEN << <<"/","/">> \o info.class_name \o <<"[","@","t","e","x","t","=","'">> \o info.text \o <<"'","]">> >>
             ELSE <<>>)
        byComb == IF combined_locators # <<>>
                  THEN ("xpath_combined" :> combined_locators) ELSE EmptyDict
        locators == byId @@ byText @@ byDesc @@ byCls @@ byBnd @@ byComb
    IN  locators @@ ("recommended" :> RecommendedLocator(locators))

-----------------------------------------------------------------------------
(* BankingElementScanner._categorize_element *)

CategorizeElement(info) ==
    LET class_name == Lower(info.class_name)
    IN  IF Contains(<<"b","u","t","t","o","n">>, class_name) THEN "button"
        ELSE IF Contains(<<"e","d","i","t","t","e","x","t">>, class_name) THEN "input"
        ELSE IF Contains(<<"t","e","x","t","v","i","e","w">>, class_name) THEN "text"
        ELSE IF Contains(<<"i","m","a","g","e","v","i","e","w">>, class_name)
                \/ Contains(<<"i","m","a","g","e","b","u","t","t","o","n">>, class_name) THEN "image"
        ELSE IF Contains(<<"c","h","e","c","k","b","o","x">>, class_name) THEN "checkbox"
        ELSE IF Contains(<<"r","a","d","i","o","b","u","t","t","o","n">>, class_name) THEN "radio"
        ELSE IF Contains(<<"s","p","i","n","n","e","r">>, class_name) THEN "dropdown"
        ELSE IF Contains(<<"l","i","s","t","v","i","e","w">>, class_name)
                \/ Contains(<<"r","e","c","y","c","l","e","r","v","i","e","w">>, class_name) THEN "list"
        ELSE IF Contains(<<"s","c","r","o","l","l","v","i","e","w">>, class_name) THEN "scroll"
        ELSE "other"

-----------------------------------------------------------------------------
(* Raw elements: a WebDriver element (get_attribute, tag_name) or a node   *)
(* of the parsed page source (attrib, tag).  An attribute the element does *)
(* not have is None: get_attribute returns None for it, attrib.get returns *)
(* its default.  The flags are the attribute texts "true" / "false".       *)

\* hasattr(element, 'get_attribute')
IsWebDriverElement(element) == element.kind = "webdriver"

\* element.get_attribute(name) / element.attrib.get(name, '') as
\* _merge_and_deduplicate reads it (no `or ''` on the WebDriver side)
RawAttribute(element, name) ==
    IF IsWebDriverElement(element) THEN element[name]
    ELSE IF element[name] = None THEN <<>> ELSE element[name]

\* a WebDriver element whose reads raise (a stale element reference)
Raises(element) == IsWebDriverElement(element) /\ element.stale

\* the value _process_element returns when processing raised (Python's None)
NotProcessed == [processed |-> FALSE]

\* BankingElementScanner._process_element
ProcessElement(data) ==
    LET element == data.element
        base ==
            IF IsWebDriverElement(element) THEN
                [detection_source |-> data.source,
                 detection_info   |-> data.extra_info,
                 class_name   |-> element.tag,
                 resource_id  |-> OrEmpty(element.resource_id),
                 text         |-> OrEmpty(element.text),
                 content_desc |-> OrEmpty(element.content_desc),
                 bounds       |-> OrEmpty(element.bounds),
                 clickable    |-> (element.clickable = "true"),
                 password     |-> (element.password = "true")]
            ELSE
                [detection_source |-> data.source,
                 detection_info   |-> data.extra_info,
                 class_name   |-> element.tag,
                 resource_id  |-> RawAttribute(element, "resource_id"),
                 text         |-> RawAttribute(element, "text"),
                 content_desc |-> RawAttribute(element, "content_desc"),
                 bounds       |-> RawAttribute(element, "bounds"),
                 clickable    |-> (element.clickable = "true"),
                 password     |-> (element.password = "true")]
    IN  IF Raises(element) THEN NotProcessed
        ELSE [processed |-> TRUE] @@ base @@
             [locators |-> GenerateLocators(base),
              safety_classification |-> ClassifyElementSafety(base),
              category |-> CategorizeElement(base)]

-----------------------------------------------------------------------------
(* BankingElementScanner._merge_and_deduplicate *)

\* element_id = f"{bounds}_{resource_id}_{text}"
ElementId(element) ==
    Format(RawAttribute(element, "bounds")) \o <<"_">>
        \o Format(RawAttribute(element, "resource_id")) \o <<"_">>
        \o Format(RawAttribute(element, "text"))

\* MergeLoop that never adds an identifier to seen_elements
RECURSIVE MergeLoopForgetful(_, _, _)
MergeLoopForgetful(items, seen, merged) ==
    IF items = <<>> THEN merged
    ELSE LET data == Head(items)
         IN  IF Raises(data.element)
             THEN MergeLoopForgetful(Tail(items), seen, merged)
             ELSE IF ElementId(data.element) \notin seen
             THEN MergeLoopForgetful(Tail(items), seen, Append(merged, data))
             ELSE MergeLoopForgetful(Tail(items), seen, merged)

\* the two nested loops over the flattened lists: `seen` is seen_elements,
\* `merged` is merged_elements; an element whose reads raise is skipped
RECURSIVE MergeLoop(_, _, _)
MergeLoop(items, seen, merged) ==
    IF items = <<>> THEN merged
    ELSE LET data == Head(items)
         IN  IF Raises(data.element)
             THEN MergeLoop(Tail(items), seen, merged)
             ELSE IF ElementId(data.element) \notin seen
             THEN MergeLoop(Tail(items), seen \cup {ElementId(data.element)},
                            Append(merged, data))
             ELSE MergeLoop(Tail(items), seen, merged)

\* `for element_list in element_lists: for ... in element_list:` visits the
\* elements in the order of the concatenated lists
RECURSIVE Flatten(_)
Flatten(element_lists) ==
    IF element_lists = <<>> THEN <<>>
    ELSE Head(element_lists) \o Flatten(Tail(element_lists))

MergeAndDeduplicate(element_lists) == MergeLoop(Flatten(element_lists), {}, <<>>)

-----------------------------------------------------------------------------
(* BankingElementScanner.scan_current_screen, lines 82-94: merge, then     *)
(* process each element and keep those that were processed                 *)

RECURSIVE ProcessAll(_)
ProcessAll(elements) ==
    IF elements = <<>> THEN <<>>
    ELSE LET processed_element == ProcessElement(Head(elements))
         IN  IF processed_element.processed
             THEN <<processed_element>> \o ProcessAll(Tail(elements))
             ELSE ProcessAll(Tail(elements))

-----------------------------------------------------------------------------
(* BankingElementScanner._generate_statistics and                          *)
(* _generate_banking_warnings                                              *)

\* dict[key] = dict.get(key, 0) + 1
Increment(dict, key) ==
    IF key \in DOMAIN dict THEN [dict EXCEPT ![key] = @ + 1]
    ELSE dict @@ (key :> 1)

\* lines 584-589
InteractionType(element) ==
    IF element.clickable THEN "clickable"
    ELSE IF Contains(<<"E","d","i","t","T","e","x","t">>, element.class_name) THEN "input"
    ELSE "display"

\* `not locators.get('resource_id') and not locators.get('accessibility_id')`
NoStableLocator(element) ==
    /\ Get(element.locators, "resource_id", <<>>) = <<>>
    /\ Get(element.locators, "accessibility_id", <<>>) = <<>>

\* an `if` chain in place of if / elif / else: a high-risk element is
\* counted once more, as safe to automate
CountElementTwice(stats, element) ==
    LET safety == element.safety_classification
        summary == stats.automation_summary
        high == IF safety.level = "HIGH_RISK"
                THEN [summary EXCEPT !.high_risk = @ + 1] ELSE summary
        rest == IF Get(safety, "requires_caution", FALSE)
                THEN [high EXCEPT !.requires_caution = @ + 1]
                ELSE [high EXCEPT !.safe_to_automate = @ + 1]
    IN  [stats EXCEPT
            !.by_safety_level = Increment(@, safety.level),
            !.by_category = Increment(@, element.category),
            !.by_interaction_type = Increment(@, InteractionType(element)),
            !.automation_summary =
                IF NoStableLocator(element)
                THEN [rest EXCEPT !.no_stable_locator = @ + 1]
                ELSE rest]

\* lines 574-605: the body of the loop over the elements
CountElement(stats, element) ==
    LET safety == element.safety_classification
        summary == stats.automation_summary
        counted ==
            IF safety.level = "HIGH_RISK"
            THEN [summary EXCEPT !.high_risk = @ + 1]
            ELSE IF Get(safety, "requires_caution", FALSE)
            THEN [summary EXCEPT !.requires_caution = @ + 1]
            ELSE [summary EXCEPT !.safe_to_automate = @ + 1]
    IN  [stats EXCEPT
            !.by_safety_level = Increment(@, safety.level),
            !.by_category = Increment(@, element.category),
            !.by_interaction_type = Increment(@, InteractionType(element)),
            !.automation_summary =
                IF NoStableLocator(element)
                THEN [counted EXCEPT !.no_stable_locator = @ + 1]
                ELSE counted]

RECURSIVE CountElements(_, _)
CountElements(stats, elements) ==
    IF elements = <<>> THEN stats
    ELSE CountElements(CountElement(stats, Head(elements)), Tail(elements))

\* lines 559-607
GenerateStatistics(elements) ==
    CountElements(
        [total_elements |-> Len(elements),
         by_safety_level |-> EmptyDict,
         by_category |-> EmptyDict,
         by_interaction_type |-> EmptyDict,
         automation_summary |->
            [safe_to_automate |-> 0, requires_caution |-> 0, high_risk |-> 0,
             no_stable_locator |-> 0]],
        elements)

\* line 624
transaction_keywords == << <<"t","r","a","n","s","f","e","r">>, <<"s","e","n","d">>, <<"p","a","y">>, <<"a","m","o","u","n","t">>, <<"c","o","n","f","i","r","m">> >>

\* lines 626-636: the element names a transaction
IsTransactionElement(element) ==
    LET element_text == Lower(element.resource_id \o <<" ">> \o element.text
                                \o <<" ">> \o element.content_desc)
    IN  \E k \in 1..Len(transaction_keywords) :
            Contains(transaction_keywords[k], element_text)

\* lines 609-646: the warnings, in the order they are appended.  A warning
\* is a fixed sentence about a count; it is written here as its subject and
\* the count.
GenerateBankingWarnings(elements) ==
    LET Warn(kind, count) == << [kind |-> kind, count |-> count] >>
        \* sum(1 for e in elements if ...)
        high_risk_count == Cardinality({ k \in 1..Len(elements) :
            elements[k].safety_classification.level = "HIGH_RISK" })
        password_fields == Cardinality({ k \in 1..Len(elements) :
            elements[k].password })
        transaction_elements == Cardinality({ k \in 1..Len(elements) :
            IsTransactionElement(elements[k]) })
        unstable_locators == Cardinality({ k \in 1..Len(elements) :
            NoStableLocator(elements[k]) })
    IN  (IF high_risk_count > 0 THEN Warn("high_risk", high_risk_count) ELSE <<>>)
        \o (IF password_fields > 0 THEN Warn("password", password_fields) ELSE <<>>)
        \o (IF transaction_elements > 0
            THEN Warn("transaction", transaction_elements) ELSE <<>>)
        \* unstable_locators > len(elements) * 0.3
        \o (IF 10 * unstable_locators > 3 * Len(elements)
            THEN Warn("unstable_locators", unstable_locators) ELSE <<>>)

-----------------------------------------------------------------------------
(* Inputs of the element scanner *)

\* bound on the number of raw elements the three discovery methods return
\* together
MaxElements == 2

BoundsOnScreen == <<"[","0",",","0","]","[","1","0","0",",","5","0","]">>

Element(kind, tag, rid, text, desc, bounds, clickable, password, stale) ==
    [kind |-> kind, tag |-> tag, resource_id |-> rid, text |-> text,
     content_desc |-> desc, bounds |-> bounds, clickable |-> clickable,
     password |-> password, stale |-> stale]

\* WebDriver elements and page-source nodes of one screen, for the merge:
\* resource ids and texts with and without '_', present and absent
ScanResourceIds == { None, <<"b","t","n">>, <<"b","t","n","_","1">> }
ScanTexts       == { None, <<"O","K">>, <<"1","_","O","K">> }

ScanWebElements ==
    { Element("webdriver", <<"a","n","d","r","o","i","d",".","w","i","d","g","e","t",".","B","u","t","t","o","n">>, rid, text, None,
              BoundsOnScreen, "true", "false", FALSE) :
        rid \in ScanResourceIds, text \in ScanTexts \cup { <<>> } }
    \cup
    { Element("webdriver", <<"a","n","d","r","o","i","d",".","w","i","d","g","e","t",".","B","u","t","t","o","n">>, None, None, None,
              None, "true", "false", TRUE) }

ScanXmlNodes ==
    { Element("xml", <<"a","n","d","r","o","i","d",".","w","i","d","g","e","t",".","B","u","t","t","o","n">>, rid, text, None,
              BoundsOnScreen, "true", "false", FALSE) :
        rid \in ScanResourceIds, text \in ScanTexts }

InteractiveData == { [source |-> "interactive", element |-> e,
                      extra_info |-> "clickable"] : e \in ScanWebElements }
XmlData         == { [source |-> "xml", element |-> e,
                      extra_info |-> "hierarchy/android.widget.Button"] :
                        e \in ScanXmlNodes }
PatternData     == { [source |-> "pattern", element |-> e,
                      extra_info |-> "//*[contains(@text, 'Login')]"] :
                        e \in ScanWebElements }

\* single elements for _process_element: every combination of keyword-bearing
\* and keyword-free attributes, class names, flags and both element kinds
ProcessTags  == { <<>>, <<"a","n","d","r","o","i","d",".","w","i","d","g","e","t",".","S","p","i","n","n","e","r">>, <<"a","n","d","r","o","i","d",".","w","i","d","g","e","t",".","E","d","i","t","T","e","x","t">>,
                  <<"a","n","d","r","o","i","d",".","w","i","d","g","e","t",".","T","e","x","t","V","i","e","w">> }
ProcessIds   == { None, <<"a","p","p",":","i","d","/","p","a","y","_","n","o","w">> }
ProcessTexts == { None, <<"L","o","g","i","n">>, <<"O","K">> }
ProcessDescs == { None, <<"H","e","l","p">> }
Flags        == { "true", "false" }

ProcessCandidates ==
    { [source |-> IF kind = "xml" THEN "xml" ELSE "interactive",
       element |-> Element(kind, tag, rid, text, desc, BoundsOnScreen,
                           clickable, password, FALSE),
       extra_info |-> "clickable"] :
        kind \in { "webdriver", "xml" }, tag \in ProcessTags, rid \in ProcessIds,
        text \in ProcessTexts, desc \in ProcessDescs,
        clickable \in Flags, password \in Flags }

\* the tag of a page-source node is never empty
ProcessData ==
    { data \in ProcessCandidates :
        data.element.kind = "xml" => data.element.tag # <<>> }

-----------------------------------------------------------------------------
(* BankingElementScanner: the discovery queries of scan_current_screen on  *)
(* a session                                                               *)

\* bound on the number of elements on the screen that is scanned
MaxPage == 2

\* a WebDriver element on screen
WebElement(tag, rid, text, desc, bounds, clickable, password) ==
    Element("webdriver", tag, rid, text, desc, bounds, clickable, password, FALSE)

\* the elements a banking screen is made of: a button, a password field, a
\* label without resource id, a second button and an image that only has a
\* content description
ScreenElements ==
    { WebElement(<<"a","n","d","r","o","i","d",".","w","i","d","g","e","t",".","B","u","t","t","o","n">>, <<"a","p","p",":","i","d","/","l","o","g","i","n","_","b","t","n">>, <<"L","o","g","i","n">>, None,
                 <<"[","0",",","0","]","[","1","0","0",",","5","0","]">>, "true", "false"),
      WebElement(<<"a","n","d","r","o","i","d",".","w","i","d","g","e","t",".","E","d","i","t","T","e","x","t">>, <<"a","p","p",":","i","d","/","p","a","s","s","w","o","r","d">>, <<>>, None,
                 <<"[","0",",","6","0","]","[","1","0","0",",","1","1","0","]">>, "false", "true"),
      WebElement(<<"a","n","d","r","o","i","d",".","w","i","d","g","e","t",".","T","e","x","t","V","i","e","w">>, None, <<"W","e","l","c","o","m","e">>, None,
                 <<"[","0",",","1","2","0","]","[","1","0","0",",","1","7","0","]">>, "false", "false"),
      WebElement(<<"a","n","d","r","o","i","d",".","w","i","d","g","e","t",".","B","u","t","t","o","n">>, <<"a","p","p",":","i","d","/","t","r","a","n","s","f","e","r">>, <<"T","r","a","n","s","f","e","r">>, None,
                 <<"[","0",",","1","8","0","]","[","1","0","0",",","2","3","0","]">>, "true", "false"),
      WebElement(<<"a","n","d","r","o","i","d",".","w","i","d","g","e","t",".","I","m","a","g","e","V","i","e","w">>, None, None, <<"H","e","l","p">>,
                 <<"[","0",",","2","4","0","]","[","1","0","0",",","2","9","0","]">>, "false", "false") }

\* lines 235-255
banking_xpaths ==
    << [attr |-> "resource_id", sub |-> <<"l","o","g","i","n">>],
       [attr |-> "resource_id", sub |-> <<"p","a","s","s","w","o","r","d">>],
       [attr |-> "resource_id", sub |-> <<"u","s","e","r","n","a","m","e">>],
       [attr |-> "resource_id", sub |-> <<"p","i","n">>],
       [attr |-> "resource_id", sub |-> <<"b","a","l","a","n","c","e">>],
       [attr |-> "resource_id", sub |-> <<"a","c","c","o","u","n","t">>],
       [attr |-> "resource_id", sub |-> <<"t","r","a","n","s","f","e","r">>],
       [attr |-> "resource_id", sub |-> <<"p","a","y","m","e","n","t">>],
       [attr |-> "resource_id", sub |-> <<"m","e","n","u">>],
       [attr |-> "resource_id", sub |-> <<"s","e","t","t","i","n","g","s">>],
       [attr |-> "resource_id", sub |-> <<"h","e","l","p">>],
       [attr |-> "text", sub |-> <<"L","o","g","i","n">>],
       [attr |-> "text", sub |-> <<"M","e","n","u">>],
       [attr |-> "text", sub |-> <<"S","e","t","t","i","n","g","s">>],
       [attr |-> "text", sub |-> <<"H","e","l","p">>],
       [attr |-> "text", sub |-> <<"T","r","a","n","s","f","e","r">>],
       [attr |-> "content_desc", sub |-> <<"m","e","n","u">>],
       [attr |-> "content_desc", sub |-> <<"s","e","t","t","i","n","g","s">>],
       [attr |-> "content_desc", sub |-> <<"h","e","l","p">>] >>

\* the queries of the session that can raise: the three of
\* _find_interactive_elements, the read of driver.page_source and the parse
\* of what was read
NamedQueries == { "clickable", "input", "button", "page_source", "parse" }

\* a session: the elements on screen in document order, the named queries
\* that raise and the pattern queries (by their place in banking_xpaths)
\* that raise.  At most one query raises.
Screens ==
    { [page |-> page, failing |-> failing, failing_xpaths |-> xpaths] :
        page \in UNION { [1..n -> ScreenElements] : n \in 0..MaxPage },
        failing \in { {} } \cup { { q } : q \in NamedQueries },
        xpaths \in { {}, { 1 }, { 12 } } }

\* what a discovery method appends for each element of a query's answer
RECURSIVE Tagged(_, _, _)
Tagged(source, elements, extra_info) ==
    IF elements = <<>> THEN <<>>
    ELSE << [source |-> source, element |-> Head(elements),
             extra_info |-> extra_info] >>
         \o Tagged(source, Tail(elements), extra_info)

\* lines 179-201: the three queries run inside one try, so a query that
\* raises ends the method with what the queries before it appended
FindInteractiveElements(driver) ==
    LET IsClickable(e) == e.clickable = "true"
        IsEditText(e) == e.tag = <<"a","n","d","r","o","i","d",".","w","i","d","g","e","t",".","E","d","i","t","T","e","x","t">>
        IsButton(e) == e.tag = <<"a","n","d","r","o","i","d",".","w","i","d","g","e","t",".","B","u","t","t","o","n">>
        clickable == Tagged("interactive", SelectSeq(driver.page, IsClickable),
                            <<"c","l","i","c","k","a","b","l","e">>)
        input == Tagged("interactive", SelectSeq(driver.page, IsEditText),
                        <<"i","n","p","u","t">>)
        button == Tagged("interactive", SelectSeq(driver.page, IsButton),
                         <<"b","u","t","t","o","n">>)
    IN  IF "clickable" \in driver.failing THEN <<>>
        ELSE IF "input" \in driver.failing THEN clickable
        ELSE IF "button" \in driver.failing THEN clickable \o input
        ELSE clickable \o input \o button

\* s.strip() is not empty
HasVisibleText(s) == \E k \in 1..Len(s) : s[k] # " "

\* lines 268-288, on a node of the page source
HasUsefulAttributes(node) ==
    \/ RawAttribute(node, "resource_id") # <<>>
    \/ HasVisibleText(RawAttribute(node, "text"))
    \/ HasVisibleText(RawAttribute(node, "content_desc"))
    \/ node.clickable = "true"

\* the node of the page source that describes an element on screen
XmlNode(element) == [element EXCEPT !.kind = "xml"]

\* lines 203-229: the nodes below the root of the page source, in document
\* order (the root itself carries no useful attribute); a source that does
\* not parse gives no node
ParseXmlHierarchy(driver) ==
    LET nodes == [k \in 1..Len(driver.page) |-> XmlNode(driver.page[k])]
        useful == SelectSeq(nodes, HasUsefulAttributes)
    IN  IF "parse" \in driver.failing THEN <<>>
        ELSE [k \in 1..Len(useful) |->
                [source |-> "xml", element |-> useful[k],
                 extra_info |-> <<"h","i","e","r","a","r","c","h","y","/">> \o useful[k].tag]]

\* the answer of the session to "//*[contains(@attr, 'sub')]"
XPathContains(page, xpath) ==
    LET Matches(e) == /\ e[xpath.attr] # None
                      /\ Contains(xpath.sub, e[xpath.attr])
    IN  SelectSeq(page, Matches)

\* the attributes as the xpaths name them
XPathAttribute ==
    [resource_id |-> <<"r","e","s","o","u","r","c","e","-","i","d">>, text |-> <<"t","e","x","t">>,
     content_desc |-> <<"c","o","n","t","e","n","t","-","d","e","s","c">>]

\* "//*[contains(@resource-id, 'login')]"
XPathText(xpath) ==
    <<"/","/","*","[","c","o","n","t","a","i","n","s","(","@">> \o XPathAttribute[xpath.attr] \o <<","," ","'">> \o xpath.sub \o <<"'",")","]">>

\* lines 257-264, from the k-th xpath on: a query that raises is passed over
RECURSIVE PatternsFrom(_, _)
PatternsFrom(driver, k) ==
    IF k > Len(banking_xpaths) THEN <<>>
    ELSE (IF k \in driver.failing_xpaths THEN <<>>
          ELSE Tagged("pattern", XPathContains(driver.page, banking_xpaths[k]),
                      XPathText(banking_xpaths[k])))
         \o PatternsFrom(driver, k + 1)

\* lines 231-266
FindElementsByPatterns(driver) == PatternsFrom(driver, 1)

\* lines 52-59: the dict scan_current_screen starts from
NewScanResults == [elements |-> <<>>, statistics |-> EmptyDict, warnings |-> <<>>]

\* lines 94-100: the elements, their statistics and the banking warnings
ScanResults(processed_elements) ==
    [elements |-> processed_elements,
     statistics |-> GenerateStatistics(processed_elements),
     warnings |-> GenerateBankingWarnings(processed_elements)]


-----------------------------------------------------------------------------
(* CompleteTestRunner.execute_step *)

\* find_element_smart returned None
NoElement == [found |-> FALSE]

\* an element find_element_smart returned: its text, whether it is enabled,
\* and whether calls on it raise (the session fails during the action)
Handle(text, enabled, raises) ==
    [found |-> TRUE, text |-> text, enabled |-> enabled, raises |-> raises]

Digits == { "0", "1", "2", "3", "4", "5", "6", "7", "8", "9" }

\* whether float(data) returns: data is a string of digits with at most one
\* '.', holding a digit (None and other texts raise)
ParsesAsFloat(data) ==
    /\ data # None
    /\ \A i \in 1..Len(data) : data[i] \in Digits \cup { "." }
    /\ \E i \in 1..Len(data) : data[i] \in Digits
    /\ Cardinality({ i \in 1..Len(data) : data[i] = "." }) <= 1

\* str(float(data)) for such a text without a '.'
FormatFloat(data) ==
    IF \E i \in 1..Len(data) : data[i] = "." THEN data ELSE data \o <<".","0">>

\* the text of the exception a failing session call raises
SessionError == <<"s","e","s","s","i","o","n"," ","e","r","r","o","r">>
\* the text of the exception float() raises
FloatError == <<"c","o","u","l","d"," ","n","o","t"," ","c","o","n","v","e","r","t"," ","t","o"," ","f","l","o","a","t">>

\* text_to_type[:20] followed by '...' when longer
Truncate20(s) ==
    IF Len(s) > 20 THEN SubSeq(s, 1, 20) \o <<".",".",".">> ELSE s

StepResult(step, status, message) ==
    [description |-> step.description, action |-> step.action,
     status |-> status, message |-> message]

\* the texts of the action names
ActionNames ==
    [click |-> <<"c","l","i","c","k">>, tap |-> <<"t","a","p">>, type |-> <<"t","y","p","e">>, clear |-> <<"c","l","e","a","r">>,
     long_press |-> <<"l","o","n","g","_","p","r","e","s","s">>, assert_exists |-> <<"a","s","s","e","r","t","_","e","x","i","s","t","s">>,
     assert_text |-> <<"a","s","s","e","r","t","_","t","e","x","t">>, assert_enabled |-> <<"a","s","s","e","r","t","_","e","n","a","b","l","e","d">>,
     wait |-> <<"w","a","i","t">>, screenshot |-> <<"s","c","r","e","e","n","s","h","o","t">>, swipe |-> <<"s","w","i","p","e">>,
     double_tap |-> <<"d","o","u","b","l","e","_","t","a","p">>]

\* the text of an action name, as an f-string formats it
ActionText(action) ==
    IF action \in DOMAIN ActionNames THEN ActionNames[action] ELSE <<"?">>

ElementActions == { "click", "tap", "type", "clear", "long_press",
                    "assert_exists", "assert_text", "assert_enabled" }

\* TypeText sending the text whatever it is (without `if text_to_type`)
TypeTextUnchecked(step, element) ==
    IF element.raises
    THEN [status |-> "failed", message |-> <<"F","a","i","l","e","d"," ","t","o"," ","t","y","p","e",":"," ">> \o SessionError,
          ops |-> <<"clear">>]
    ELSE [status |-> "passed",
          message |-> <<"T","y","p","e","d",":"," ">> \o Truncate20(OrEmpty(step.data)),
          ops |-> <<"clear", "send_keys">>]

\* lines 386-409, the action 'type' on a resolved element: the status, the
\* message and the operations invoked on the element
TypeText(step, element) ==
    IF element.raises
    THEN [status |-> "failed", message |-> <<"F","a","i","l","e","d"," ","t","o"," ","t","y","p","e",":"," ">> \o SessionError,
          ops |-> <<"clear">>]
    ELSE IF step.data # None /\ step.data # <<>>
    THEN [status |-> "passed", message |-> <<"T","y","p","e","d",":"," ">> \o Truncate20(step.data),
          ops |-> <<"clear", "send_keys">>]
    ELSE [status |-> "failed", message |-> <<"N","o"," ","t","e","x","t"," ","p","r","o","v","i","d","e","d"," ","t","o"," ","t","y","p","e">>,
          ops |-> <<"clear">>]

\* a comparison that takes "ok" for "OK"
AssertTextIgnoringCase(step, element) ==
    [status |-> IF Lower(element.text) = Lower(step.data)
                THEN "passed" ELSE "failed",
     message |-> <<"T","e","x","t",":"," ">> \o element.text \o <<" ","(","E","x","p","e","c","t","e","d",":"," ">>
                    \o Format(step.data) \o <<")">>]

\* lines 426-430: the 'assert_text' branch of execute_step once the text of
\* the resolved element has been read
AssertText(step, element) ==
    [status |-> IF element.text = step.data THEN "passed" ELSE "failed",
     message |-> <<"T","e","x","t",":"," ">> \o element.text \o <<" ","(","E","x","p","e","c","t","e","d",":"," ">>
                    \o Format(step.data) \o <<")">>]

\* lines 447-465: perform_swipe(direction), the gestures it issues on the
\* session; what the session raises is logged and goes no further
SwipeDirections == { <<"u","p">>, <<"d","o","w","n">>, <<"l","e","f","t">>, <<"r","i","g","h","t">> }

PerformSwipe(direction, actions_fail) ==
    IF actions_fail THEN <<>>
    ELSE IF direction \in SwipeDirections THEN << "swipe" >>
    ELSE <<>>

\* execute_step(step) where find_element_smart returns `element` and
\* take_screenshot returns `screenshot` (None when it failed): the result
\* dict and the element operations invoked, in order
ExecuteStep(step, element, screenshot) ==
    LET action == step.action
        Res(status, message, ops) ==
            [result |-> StepResult(step, status, message), ops |-> ops]
        \* the outer `except Exception as e`
        Caught(ops) == Res("failed", <<"E","r","r","o","r",":"," ">> \o SessionError, ops)
    IN  IF action = "wait" THEN
            IF ParsesAsFloat(step.data)
            THEN Res("passed", <<"W","a","i","t","e","d"," ">> \o FormatFloat(step.data) \o <<" ","s","e","c","o","n","d","s">>, <<>>)
            ELSE Res("failed", <<"E","r","r","o","r",":"," ">> \o FloatError, <<>>)
        ELSE IF action = "screenshot" THEN
            IF screenshot # None
            THEN Res("passed", <<"S","c","r","e","e","n","s","h","o","t"," ","t","a","k","e","n">>, <<>>)
            ELSE Res("failed", <<"S","c","r","e","e","n","s","h","o","t"," ","f","a","i","l","e","d">>, <<>>)
        ELSE IF action = "swipe" THEN
            \* perform_swipe catches what the session raises and issues no
            \* swipe for a direction it does not know; its gestures are
            \* those of PerformSwipe
            Res("passed", <<"S","w","i","p","e","d"," ">> \o Format(step.data), <<>>)
        ELSE IF ~element.found THEN
            Res("failed", <<"E","l","e","m","e","n","t"," ","n","o","t"," ","f","o","u","n","d",":"," ">> \o step.locator_value, <<>>)
        ELSE IF action \in { "click", "tap" } THEN
            IF element.raises THEN Caught(<<"click">>)
            ELSE Res("passed", <<"C","l","i","c","k","/","T","a","p"," ","s","u","c","c","e","s","s","f","u","l">>, <<"click">>)
        ELSE IF action = "type" THEN
            LET typed == TypeText(step, element)
            IN  Res(typed.status, typed.message, typed.ops)
        ELSE IF action = "clear" THEN
            IF element.raises THEN Caught(<<"clear">>)
            ELSE Res("passed", <<"F","i","e","l","d"," ","c","l","e","a","r","e","d">>, <<"clear">>)
        ELSE IF action = "long_press" THEN
            IF element.raises THEN Caught(<<"long_press">>)
            ELSE Res("passed", <<"L","o","n","g"," ","p","r","e","s","s"," ","s","u","c","c","e","s","s","f","u","l">>, <<"long_press">>)
        ELSE IF action = "assert_exists" THEN
            Res("passed", <<"E","l","e","m","e","n","t"," ","e","x","i","s","t","s">>, <<>>)
        ELSE IF action = "assert_text" THEN
            IF element.raises THEN Caught(<<>>)
            ELSE LET asserted == AssertText(step, element)
                 IN  Res(asserted.status, asserted.message, <<>>)
        ELSE IF action = "assert_enabled" THEN
            IF element.raises THEN Caught(<<>>)
            ELSE IF element.enabled THEN Res("passed", <<"E","l","e","m","e","n","t"," ","e","n","a","b","l","e","d">>, <<>>)
            ELSE Res("failed", <<"E","l","e","m","e","n","t"," ","d","i","s","a","b","l","e","d">>, <<>>)
        ELSE
            Res("failed", <<"U","n","k","n","o","w","n"," ","a","c","t","i","o","n",":"," ">> \o ActionText(action), <<>>)

-----------------------------------------------------------------------------
(* CompleteTestRunner.find_element_smart *)

\* an element of the view: its class, the attributes get_attribute reads
\* (None when absent), whether it is enabled, and whether reading its
\* attributes raises (the element went stale after it was enumerated)
ViewElement(tag, rid, text, desc, enabled, stale) ==
    [tag |-> tag, resource_id |-> rid, text |-> text, content_desc |-> desc,
     enabled |-> enabled, stale |-> stale]

\* the least index of a set of indices, 0 for the empty set (no element)
FirstIndex(indices) ==
    IF indices = {} THEN 0
    ELSE CHOOSE i \in indices : \A j \in indices : i <= j

\* line 199: 'button' in locator_value.lower() and
\* any(ok in locator_value.lower() for ok in ['ok', 'okay'])
IsOkButtonLocator(locator_value) ==
    /\ Contains(<<"b","u","t","t","o","n">>, Lower(locator_value))
    /\ \/ Contains(<<"o","k">>, Lower(locator_value))
       \/ Contains(<<"o","k","a","y">>, Lower(locator_value))

\* the number of entries of ok_selectors
OkSelectorCount == 8

\* whether the k-th entry of ok_selectors (lines 200-209) selects element e
OkSelectorMatches(k, e) ==
    CASE k = 1 -> e.resource_id = <<"a","n","d","r","o","i","d",":","i","d","/","b","u","t","t","o","n","1">>
      [] k = 2 -> e.tag = <<"a","n","d","r","o","i","d",".","w","i","d","g","e","t",".","B","u","t","t","o","n">> /\ e.text = <<"O","K">>
      [] k = 3 -> e.tag = <<"a","n","d","r","o","i","d",".","w","i","d","g","e","t",".","B","u","t","t","o","n">> /\ e.text = <<"O","k">>
      [] k = 4 -> e.tag = <<"a","n","d","r","o","i","d",".","w","i","d","g","e","t",".","B","u","t","t","o","n">> /\ e.text = <<"o","k">>
      [] k = 5 -> /\ e.tag = <<"a","n","d","r","o","i","d",".","w","i","d","g","e","t",".","B","u","t","t","o","n">>
                  /\ e.text # None /\ Contains(<<"O","K">>, e.text)
      [] k = 6 -> e.tag = <<"a","n","d","r","o","i","d",".","w","i","d","g","e","t",".","T","e","x","t","V","i","e","w">> /\ e.text = <<"O","K">>
      [] k = 7 -> e.tag = <<"a","n","d","r","o","i","d",".","w","i","d","g","e","t",".","T","e","x","t","V","i","e","w">> /\ e.text = <<"O","k">>
      [] k = 8 -> e.text \in { <<"O","K">>, <<"O","k">>, <<"o","k">> }

\* lines 211-220: the selectors are tried in order from the k-th on; the
\* first that selects an element returns the first element it selects
RECURSIVE OkButtonFrom(_, _)
OkButtonFrom(elements, k) ==
    IF k > OkSelectorCount THEN 0
    ELSE LET found == FirstIndex({ i \in 1..Len(elements) :
                                      OkSelectorMatches(k, elements[i]) })
         IN  IF found # 0 THEN found ELSE OkButtonFrom(elements, k + 1)

\* an XPath expression selects e: the expressions are those the scanner
\* generates as xpath_text and xpath_resource_id
XPathMatches(expression, e) ==
    \/ e.text # None /\ expression = <<"/","/","*","[","@","t","e","x","t","=","'">> \o e.text \o <<"'","]">>
    \/ e.resource_id # None
          /\ expression = <<"/","/","*","[","@","r","e","s","o","u","r","c","e","-","i","d","=","'">> \o e.resource_id \o <<"'","]">>

\* whether the lookup of lines 224-239 for (locator_type, locator_value)
\* selects e; no lookup is made for another locator_type
PrimaryMatches(locator_type, locator_value, e) ==
    CASE locator_type = "id" -> e.resource_id = locator_value
      [] locator_type = "xpath" -> XPathMatches(locator_value, e)
      [] locator_type = "accessibility_id" -> e.content_desc = locator_value
      [] locator_type = "class" -> e.tag = locator_value
      [] OTHER -> FALSE

\* lines 223-241: the element the primary lookup returns, 0 when it times
\* out (the exception is caught and `element` stays None)
PrimaryLookup(locator_type, locator_value, elements) ==
    FirstIndex({ i \in 1..Len(elements) :
                    PrimaryMatches(locator_type, locator_value, elements[i]) })

\* locator_value.split(':id/')[-1]: what follows the last ':id/'
LastIdSegment(locator_value) ==
    LET at == { i \in 1..Len(locator_value) :
                    /\ i + 3 <= Len(locator_value)
                    /\ SubSeq(locator_value, i, i + 3) = <<":","i","d","/">> }
    IN  IF at = {} THEN locator_value
        ELSE LET last == CHOOSE i \in at : \A j \in at : j <= i
             IN  SubSeq(locator_value, last + 4, Len(locator_value))

\* lines 249-266: the fallback loop takes element e (an element whose
\* attribute reads raise is passed over)
FallbackMatches(locator_value, e) ==
    /\ ~e.stale
    /\ \/ Contains(locator_value, OrEmpty(e.resource_id))
       \/ Contains(locator_value, OrEmpty(e.text))
       \/ Contains(locator_value, OrEmpty(e.content_desc))
       \/ /\ Contains(<<":","i","d","/">>, locator_value)
          /\ Contains(LastIdSegment(locator_value), OrEmpty(e.resource_id))

\* lines 244-268: the first element of find_elements("//*") the loop takes
FallbackSearch(locator_value, elements) ==
    FirstIndex({ i \in 1..Len(elements) :
                    FallbackMatches(locator_value, elements[i]) })

\* find_element_smart on a session whose view holds `elements`: the index
\* of the element returned, 0 for None.  With lookups_fail every call of
\* the session raises: each handler catches, and None is returned.
FindElementSmart(locator_type, locator_value, elements, lookups_fail) ==
    IF lookups_fail THEN 0
    ELSE LET ok_button == IF IsOkButtonLocator(locator_value)
                          THEN OkButtonFrom(elements, 1) ELSE 0
             primary == PrimaryLookup(locator_type, locator_value, elements)
         IN  IF ok_button # 0 THEN ok_button
             ELSE IF primary # 0 THEN primary
             ELSE FallbackSearch(locator_value, elements)

-----------------------------------------------------------------------------
(* CompleteTestRunner.execute_custom_test *)

\* OverallStatus with PARTIAL only when at least two steps did not fail
OverallStatusOffByOne(steps) ==
    LET failed_count == Cardinality({ i \in 1..Len(steps) : steps[i].status = "failed" })
    IN  IF failed_count = 0 THEN "PASSED"
        ELSE IF failed_count < Len(steps) - 1 THEN "PARTIAL"
        ELSE "FAILED"

\* lines 306-313: the overall status from the recorded step results
OverallStatus(steps) ==
    LET failed_count == Cardinality({ i \in 1..Len(steps) : steps[i].status = "failed" })
    IN  IF failed_count = 0 THEN "PASSED"
        ELSE IF failed_count < Len(steps) THEN "PARTIAL"
        ELSE "FAILED"

\* the actions after which the orchestrator takes a screenshot
ScreenshotActions == { "click", "tap", "type" }

\* the text of the exception a failing progress callback raises
CallbackError == <<"c","a","l","l","b","a","c","k"," ","e","r","r","o","r">>

\* the path take_screenshot returns
ScreenshotPath == <<"s","t","e","p",".","p","n","g">>

-----------------------------------------------------------------------------
(* Inputs of the test runner *)

\* bound on the number of steps of a test case
MaxSteps == 3

Step(action, value, data) ==
    [action |-> action, locator_strategy |-> "id", locator_value |-> value,
     data |-> data, description |-> ActionText(action) \o <<" ","o","n"," ","e","l","e","m","e","n","t">>]

\* steps as CustomTestBuilder.add_step builds them (data defaults to None)
RunSteps ==
    { Step("click", <<"b","t","n">>, None),
      Step("type", <<"f","i","e","l","d">>, <<>>),
      Step("type", <<"f","i","e","l","d">>, <<"a","b","c">>),
      Step("wait", <<>>, <<"2">>),
      Step("assert_exists", <<"b","t","n">>, None) }

TestCases ==
    { [name |-> <<"C","u","s","t","o","m"," ","T","e","s","t">>, stop_on_failure |-> sof, steps |-> steps] :
        sof \in BOOLEAN,
        steps \in UNION { [1..n -> RunSteps] : n \in 0..MaxSteps } }

\* what find_element_smart can return for a step
RunElements == { NoElement, Handle(<<"O","K">>, TRUE, FALSE), Handle(<<"O","K">>, TRUE, TRUE) }

ElementsFor(step) ==
    IF step.action \in ElementActions THEN RunElements ELSE { NoElement }

\* what take_screenshot can return while a step runs
ScreenshotsFor(step) ==
    IF step.action \in ScreenshotActions \cup { "screenshot" }
    THEN { None, ScreenshotPath } ELSE { None }

-----------------------------------------------------------------------------
(* BankingSafetyManager (banking_safety_day4.py): the safety rules and the *)
(* validation of one element                                               *)

\* lines 25-29
forbidden_resource_ids ==
    << <<"p","a","s","s","w","o","r","d">>,
       <<"p","i","n">>,
       <<"c","v","v">>,
       <<"o","t","p">>,
       <<"t","o","k","e","n">>,
       <<"b","i","o","m","e","t","r","i","c">>,
       <<"t","r","a","n","s","f","e","r","_","a","m","o","u","n","t">>,
       <<"a","c","c","o","u","n","t","_","n","u","m","b","e","r">>,
       <<"r","o","u","t","i","n","g","_","n","u","m","b","e","r">>,
       <<"c","o","n","f","i","r","m","_","p","a","y","m","e","n","t">>,
       <<"e","x","e","c","u","t","e","_","t","r","a","n","s","f","e","r">>,
       <<"s","u","b","m","i","t","_","t","r","a","n","s","a","c","t","i","o","n">> >>

\* lines 30-34: the regular expressions, each with what it searches for: a
\* word followed, anywhere later in the text, by a digit (the `\$?` in
\* front of `\d+` is optional) or by a second word
forbidden_text_patterns ==
    << [source |-> <<"t","r","a","n","s","f","e","r",".","*","\\","$","?","\\","d","+">>, first |-> <<"t","r","a","n","s","f","e","r">>, digit |-> TRUE, second |-> <<>>],
       [source |-> <<"p","a","y",".","*","\\","$","?","\\","d","+">>, first |-> <<"p","a","y">>, digit |-> TRUE, second |-> <<>>],
       [source |-> <<"s","e","n","d",".","*","\\","$","?","\\","d","+">>, first |-> <<"s","e","n","d">>, digit |-> TRUE, second |-> <<>>],
       [source |-> <<"c","o","n","f","i","r","m",".","*","t","r","a","n","s","a","c","t","i","o","n">>, first |-> <<"c","o","n","f","i","r","m">>, digit |-> FALSE, second |-> <<"t","r","a","n","s","a","c","t","i","o","n">>],
       [source |-> <<"e","x","e","c","u","t","e",".","*","p","a","y","m","e","n","t">>, first |-> <<"e","x","e","c","u","t","e">>, digit |-> FALSE, second |-> <<"p","a","y","m","e","n","t">>],
       [source |-> <<"e","n","t","e","r",".","*","p","a","s","s","w","o","r","d">>, first |-> <<"e","n","t","e","r">>, digit |-> FALSE, second |-> <<"p","a","s","s","w","o","r","d">>],
       [source |-> <<"e","n","t","e","r",".","*","p","i","n">>, first |-> <<"e","n","t","e","r">>, digit |-> FALSE, second |-> <<"p","i","n">>] >>

\* lines 35-37
forbidden_class_names ==
    << <<"P","a","s","s","w","o","r","d","E","d","i","t","T","e","x","t">>,
       <<"P","i","n","E","d","i","t","T","e","x","t">>,
       <<"S","e","c","u","r","e","E","d","i","t","T","e","x","t">> >>

\* lines 39-42
restricted_actions ==
    { <<"t","a","p","_","t","r","a","n","s","f","e","r","_","b","u","t","t","o","n">>, <<"e","n","t","e","r","_","a","m","o","u","n","t">>, <<"c","o","n","f","i","r","m","_","t","r","a","n","s","a","c","t","i","o","n">>,
      <<"s","u","b","m","i","t","_","p","a","y","m","e","n","t">>, <<"a","u","t","h","e","n","t","i","c","a","t","e","_","b","i","o","m","e","t","r","i","c">> }

\* lines 164-167
financial_keywords ==
    << <<"a","m","o","u","n","t">>,
       <<"b","a","l","a","n","c","e">>,
       <<"t","r","a","n","s","f","e","r">>,
       <<"p","a","y","m","e","n","t">>,
       <<"d","e","p","o","s","i","t">>,
       <<"w","i","t","h","d","r","a","w">>,
       <<"c","u","r","r","e","n","c","y">>,
       <<"d","o","l","l","a","r">>,
       <<"e","u","r","o">>,
       <<"a","c","c","o","u","n","t">> >>

\* line 182
auth_keywords ==
    << <<"p","a","s","s","w","o","r","d">>,
       <<"p","i","n">>,
       <<"b","i","o","m","e","t","r","i","c">>,
       <<"f","i","n","g","e","r","p","r","i","n","t">>,
       <<"f","a","c","e">>,
       <<"t","o","k","e","n">> >>

\* line 190
confirm_keywords ==
    << <<"c","o","n","f","i","r","m">>,
       <<"e","x","e","c","u","t","e">>,
       <<"s","u","b","m","i","t">>,
       <<"a","u","t","h","o","r","i","z","e">>,
       <<"a","p","p","r","o","v","e">> >>

\* ', '.join(parts)
RECURSIVE JoinComma(_)
JoinComma(parts) ==
    IF Len(parts) = 0 THEN <<>>
    ELSE IF Len(parts) = 1 THEN parts[1]
    ELSE parts[1] \o <<","," ">> \o JoinComma(Tail(parts))

\* re.search(pattern, text) for the patterns of the rules
SearchPattern(pattern, text) ==
    \E i \in 1..(Len(text) - Len(pattern.first) + 1) :
        /\ SubSeq(text, i, i + Len(pattern.first) - 1) = pattern.first
        /\ LET rest == SubSeq(text, i + Len(pattern.first), Len(text))
           IN  IF pattern.digit
               THEN \E k \in 1..Len(rest) : rest[k] \in Digits
               ELSE Contains(pattern.second, rest)

\* what str.lower and str.join raise for None
NoneTypeError == <<"'","N","o","n","e","T","y","p","e","'"," ","o","b","j","e","c","t"," ","h","a","s"," ","n","o"," ","a","t","t","r","i","b","u","t","e"," ","'","l","o","w","e","r","'">>

\* lines 155-203
AssessBankingRisks(info) ==
    LET element_text == Lower(Join(<< info.resource_id, info.text,
                                      info.content_desc >>))
        In(kw) == Contains(kw, element_text)
        financial_matches == SelectSeq(financial_keywords, In)
        auth_matches == SelectSeq(auth_keywords, In)
        confirm_matches == SelectSeq(confirm_keywords, In)
        confirms == confirm_matches # <<>> /\ info.clickable
        sensitive == \/ info.password
                     \/ Contains(<<"p","a","s","s","w","o","r","d">>, Lower(info.class_name))
    IN  [risk_level |->
            IF auth_matches # <<>> \/ confirms \/ sensitive THEN "HIGH"
            ELSE IF financial_matches # <<>> THEN "MEDIUM"
            ELSE "LOW",
         warnings |->
            (IF financial_matches # <<>>
             THEN << <<"F","i","n","a","n","c","i","a","l"," ","k","e","y","w","o","r","d","s"," ","d","e","t","e","c","t","e","d",":"," ">> \o JoinComma(financial_matches) >>
             ELSE <<>>)
            \o (IF auth_matches # <<>>
                THEN << <<"A","u","t","h","e","n","t","i","c","a","t","i","o","n"," ","e","l","e","m","e","n","t","s",":"," ">> \o JoinComma(auth_matches) >>
                ELSE <<>>)
            \o (IF confirms
                THEN << <<"T","r","a","n","s","a","c","t","i","o","n"," ","c","o","n","f","i","r","m","a","t","i","o","n"," ","d","e","t","e","c","t","e","d",":"," ">> \o JoinComma(confirm_matches) >>
                ELSE <<>>)
            \o (IF sensitive THEN << <<"S","e","n","s","i","t","i","v","e"," ","i","n","p","u","t"," ","f","i","e","l","d"," ","d","e","t","e","c","t","e","d">> >> ELSE <<>>),
         factors |->
            (IF financial_matches # <<>> THEN << "financial_content" >> ELSE <<>>)
            \o (IF auth_matches # <<>> THEN << "authentication_required" >> ELSE <<>>)
            \o (IF confirms THEN << "transaction_confirmation" >> ELSE <<>>)
            \o (IF sensitive THEN << "sensitive_input" >> ELSE <<>>)]

\* lines 205-232: the recommendations, each written without the symbol it
\* starts with
GenerateSafetyRecommendations(info, validation_result) ==
    (IF ~validation_result.is_safe
     THEN << <<"D","O"," ","N","O","T"," ","A","U","T","O","M","A","T","E",":"," ","E","l","e","m","e","n","t"," ","v","i","o","l","a","t","e","s"," ","b","a","n","k","i","n","g"," ","s","a","f","e","t","y"," ","r","u","l","e","s">>,
             <<"D","o","c","u","m","e","n","t"," ","w","h","y"," ","a","u","t","o","m","a","t","i","o","n"," ","i","s"," ","n","e","e","d","e","d"," ","f","o","r"," ","t","h","i","s"," ","e","l","e","m","e","n","t">>,
             <<"R","e","q","u","i","r","e","s"," ","a","p","p","r","o","v","a","l"," ","f","r","o","m"," ","c","o","m","p","l","i","a","n","c","e"," ","t","e","a","m">> >>
     ELSE IF validation_result.safety_level = "HIGH_RISK"
     THEN << <<"H","I","G","H"," ","R","I","S","K",":"," ","U","s","e"," ","e","x","t","r","e","m","e"," ","c","a","u","t","i","o","n">>,
             <<"M","a","n","u","a","l"," ","r","e","v","i","e","w"," ","r","e","q","u","i","r","e","d"," ","b","e","f","o","r","e"," ","a","u","t","o","m","a","t","i","o","n">>,
             <<"M","o","n","i","t","o","r"," ","c","l","o","s","e","l","y"," ","d","u","r","i","n","g"," ","t","e","s","t"," ","e","x","e","c","u","t","i","o","n">>,
             <<"U","s","e"," ","t","e","s","t"," ","a","c","c","o","u","n","t","s"," ","o","n","l","y"," ","-"," ","n","e","v","e","r"," ","p","r","o","d","u","c","t","i","o","n"," ","d","a","t","a">> >>
     ELSE IF validation_result.requires_manual_review
     THEN << <<"M","a","n","u","a","l"," ","r","e","v","i","e","w"," ","r","e","c","o","m","m","e","n","d","e","d">>,
             <<"V","e","r","i","f","y"," ","w","i","t","h"," ","b","u","s","i","n","e","s","s"," ","t","e","a","m"," ","b","e","f","o","r","e"," ","a","u","t","o","m","a","t","i","n","g">> >>
     ELSE <<>>)
    \o (IF Get(info.locators, "resource_id", <<>>) = <<>>
        THEN << <<"N","o"," ","s","t","a","b","l","e"," ","r","e","s","o","u","r","c","e","-","i","d"," ","f","o","u","n","d"," ","-"," ","a","u","t","o","m","a","t","i","o","n"," ","m","a","y"," ","b","e"," ","b","r","i","t","t","l","e">> >>
        ELSE <<>>)
    \o (IF info.clickable /\ validation_result.is_safe
        THEN << <<"S","a","f","e"," ","f","o","r"," ","n","a","v","i","g","a","t","i","o","n"," ","a","u","t","o","m","a","t","i","o","n">> >>
        ELSE <<>>)

\* validate_element_safety raises before it has logged: an attribute of the
\* element that is None where the code calls .lower() or ' '.join
ValidationRaises(info) ==
    \/ info.resource_id = None
    \/ info.text = None
    \/ info.content_desc = None
    \/ info.class_name = None

\* lines 85-153: the dict validate_element_safety returns
ValidateElementSafety(info) ==
    LET resource_id == Lower(info.resource_id)
        InId(forbidden_id) == Contains(forbidden_id, resource_id)
        id_hits == SelectSeq(forbidden_resource_ids, InId)
        id_violations ==
            [k \in 1..Len(id_hits) |-> <<"F","o","r","b","i","d","d","e","n"," ","r","e","s","o","u","r","c","e"," ","I","D"," ","p","a","t","t","e","r","n",":"," ">> \o id_hits[k]]
        element_text == Lower(Join(<< info.text, info.content_desc,
                                      resource_id >>))
        InText(pattern) == SearchPattern(pattern, element_text)
        text_hits == SelectSeq(forbidden_text_patterns, InText)
        text_violations ==
            [k \in 1..Len(text_hits) |-> <<"F","o","r","b","i","d","d","e","n"," ","t","e","x","t"," ","p","a","t","t","e","r","n",":"," ">> \o text_hits[k].source]
        InClass(forbidden_class) ==
            Contains(Lower(forbidden_class), Lower(info.class_name))
        class_hits == SelectSeq(forbidden_class_names, InClass)
        class_violations ==
            [k \in 1..Len(class_hits) |-> <<"F","o","r","b","i","d","d","e","n"," ","c","l","a","s","s"," ","n","a","m","e",":"," ">> \o class_hits[k]]
        violations == id_violations \o text_violations \o class_violations
        banking_risks == AssessBankingRisks(info)
        high == banking_risks.risk_level = "HIGH"
        \* lines 147-151
        Error(found) ==
            [is_safe |-> FALSE, safety_level |-> "ERROR",
             violations |-> found \o << <<"V","a","l","i","d","a","t","i","o","n"," ","e","r","r","o","r",":"," ">> \o NoneTypeError >>,
             warnings |-> <<>>, recommendations |-> <<>>,
             requires_manual_review |-> FALSE]
        checked ==
            [is_safe |-> violations = <<>>,
             \* line 137 assigns the level last
             safety_level |-> IF high THEN "HIGH_RISK"
                              ELSE IF violations # <<>> THEN "FORBIDDEN"
                              ELSE "SAFE",
             violations |-> violations,
             warnings |-> IF high THEN banking_risks.warnings ELSE <<>>,
             recommendations |-> <<>>,
             requires_manual_review |-> high]
    IN  IF info.resource_id = None THEN Error(<<>>)
        ELSE IF info.text = None \/ info.content_desc = None
        THEN Error(id_violations)
        ELSE IF info.class_name = None
        THEN Error(id_violations \o text_violations)
        ELSE [checked EXCEPT !.recommendations =
                                GenerateSafetyRecommendations(info, checked)]

-----------------------------------------------------------------------------
(* BankingSafetyManager: the audit log, validate_test_action and           *)
(* generate_safety_report                                                  *)

\* line 249: the length above which _log_safety_validation trims the log
AuditLogLimit == 1000

\* line 250: the entries it keeps
AuditLogKept == 500

\* line 353: the entries of the log a report shows
AuditTrailShown == 50

\* list[-n:]
LastEntries(list, n) ==
    IF Len(list) <= n THEN list ELSE SubSeq(list, Len(list) - n + 1, Len(list))

\* lines 234-250; `now` stands for the time stamp of the entry
LogSafetyValidation(log, now, info, validation_result) ==
    LET log_entry == [timestamp |-> now,
                      element_id |-> info.resource_id,
                      element_text |-> info.text,
                      safety_level |-> validation_result.safety_level,
                      is_safe |-> validation_result.is_safe,
                      violations |-> validation_result.violations,
                      warnings |-> validation_result.warnings]
        appended == Append(log, log_entry)
    IN  IF Len(appended) > AuditLogLimit
        THEN LastEntries(appended, AuditLogKept)
        ELSE appended

\* lines 320-332
LogActionValidation(log, now, action_type, info, validation) ==
    Append(log, [timestamp |-> now,
                 action_type |-> action_type,
                 element_id |-> info.resource_id,
                 element_text |-> info.text,
                 allowed |-> validation.allowed,
                 risk_level |-> validation.risk_level,
                 warnings |-> validation.warnings])

\* self.validate_element_safety(info) with the manager's log and clock:
\* the result, and the log and the clock after the call
ValidateAndLog(log, now, info) ==
    LET Logged(validation_result) ==
            IF ValidationRaises(info)
            THEN [result |-> validation_result, log |-> log, now |-> now]
            ELSE [result |-> validation_result,
                  log |-> LogSafetyValidation(log, now + 1, info, validation_result),
                  now |-> now + 1]
    IN  Logged(ValidateElementSafety(info))

\* line 299
tap_words == << <<"c","o","n","f","i","r","m">>,
       <<"e","x","e","c","u","t","e">>,
       <<"s","u","b","m","i","t">>,
       <<"t","r","a","n","s","f","e","r">>,
       <<"p","a","y">> >>

\* lines 252-318: the dict validate_test_action returns, and the log and
\* the clock after the call
ValidateTestAction(log, now, action_type, info) ==
    LET Forbidden(warnings) ==
            [allowed |-> FALSE, risk_level |-> "FORBIDDEN", warnings |-> warnings,
             required_confirmations |-> <<>>, audit_required |-> FALSE]
        types_password == action_type = <<"t","y","p","e">> /\ info.password
        taps_transaction ==
            /\ action_type = <<"t","a","p">>
            /\ \E k \in 1..Len(tap_words) : Contains(tap_words[k], Lower(info.text))
        Checked(element_validation) ==
            LET audited == element_validation.safety_level
                                \in { "HIGH_RISK", "MEDIUM_RISK" }
            IN
            [allowed |-> ~types_password /\ ~taps_transaction,
             risk_level |-> IF types_password THEN "FORBIDDEN"
                            ELSE IF taps_transaction THEN "HIGH"
                            ELSE "LOW",
             warnings |->
                IF types_password
                THEN << <<"T","y","p","i","n","g"," ","i","n"," ","p","a","s","s","w","o","r","d"," ","f","i","e","l","d","s"," ","i","s"," ","f","o","r","b","i","d","d","e","n">> >>
                ELSE IF taps_transaction
                THEN << <<"T","a","p","p","i","n","g"," ","t","r","a","n","s","a","c","t","i","o","n"," ","c","o","n","f","i","r","m","a","t","i","o","n"," ","e","l","e","m","e","n","t","s"," ","i","s"," ","h","i","g","h"," ","r","i","s","k">> >>
                ELSE <<>>,
             required_confirmations |->
                IF audited
                THEN << <<"C","o","n","f","i","r","m"," ","t","h","i","s"," ","a","c","t","i","o","n"," ","i","s"," ","n","e","c","e","s","s","a","r","y"," ","f","o","r"," ","t","h","e"," ","t","e","s","t">> >>
                ELSE <<>>,
             audit_required |-> audited]
        Allowed(validated, validation) ==
            [result |-> validation,
             log |-> LogActionValidation(validated.log, validated.now + 1,
                                         action_type, info, validation),
             now |-> validated.now + 1]
        Validated(validated) ==
            IF ~validated.result.is_safe
            THEN [result |-> Forbidden(<< <<"T","a","r","g","e","t"," ","e","l","e","m","e","n","t"," ","v","i","o","l","a","t","e","s"," ","s","a","f","e","t","y"," ","r","u","l","e","s">> >>
                                       \o validated.result.violations),
                  log |-> validated.log, now |-> validated.now]
            ELSE Allowed(validated, Checked(validated.result))
    IN  IF action_type \in restricted_actions
        THEN [result |-> Forbidden(<< <<"A","c","t","i","o","n"," ","'">> \o action_type
                                        \o <<"'"," ","i","s"," ","i","n"," ","r","e","s","t","r","i","c","t","e","d"," ","a","c","t","i","o","n","s"," ","l","i","s","t">> >>),
              log |-> log, now |-> now]
        ELSE Validated(ValidateAndLog(log, now, info))

\* lines 360-385: the loop of generate_safety_report over the elements
\* that are left, from the report, the log and the clock so far
RECURSIVE ReportElements(_, _)
ReportElements(elements, so_far) ==
    IF elements = <<>> THEN so_far
    ELSE LET element == Head(elements)
             analysis == so_far.report.safety_analysis
             Counted(validation) ==
                IF ~validation.is_safe
                THEN [analysis EXCEPT !.total_violations = @ + 1,
                                      !.forbidden_elements = @ + 1]
                ELSE IF validation.safety_level = "HIGH_RISK"
                THEN [analysis EXCEPT !.high_risk_elements = @ + 1]
                ELSE IF validation.requires_manual_review
                THEN [analysis EXCEPT !.requires_review = @ + 1]
                ELSE [analysis EXCEPT !.safe_elements = @ + 1]
             Finding(validation) ==
                        [element_id |-> element.resource_id,
                         element_text |-> element.text,
                         safety_level |-> validation.safety_level,
                         violations |-> validation.violations,
                         warnings |-> validation.warnings,
                         recommendations |-> validation.recommendations]
             Reported(validated) ==
                [report |-> [so_far.report EXCEPT
                                !.safety_analysis = Counted(validated.result),
                                !.compliance_status =
                                    IF ~validated.result.is_safe
                                    THEN "NON_COMPLIANT" ELSE @,
                                !.detailed_findings =
                                    Append(@, Finding(validated.result))],
                 log |-> validated.log,
                 now |-> validated.now]
         IN  ReportElements(Tail(elements),
                Reported(ValidateAndLog(so_far.log, so_far.now, element)))

\* lines 334-418: the report generate_safety_report returns for the
\* elements of a scan, and the log and the clock after the call.  The
\* recommendations are written as what they are about and the count.
GenerateSafetyReport(log, now, elements) ==
    LET report ==
            [scan_summary |-> [total_elements |-> Len(elements)],
             safety_analysis |->
                [total_violations |-> 0, high_risk_elements |-> 0,
                 forbidden_elements |-> 0, safe_elements |-> 0,
                 requires_review |-> 0],
             compliance_status |-> "COMPLIANT",
             recommendations |-> <<>>,
             audit_trail |-> LastEntries(log, AuditTrailShown),
             detailed_findings |-> <<>>]
        Checked(looped, analysis, total_risky) ==
         [result |->
            [looped.report EXCEPT
                !.recommendations =
                    (IF analysis.forbidden_elements > 0
                     THEN << [about |-> "forbidden", count |-> analysis.forbidden_elements] >>
                     ELSE <<>>)
                    \o (IF analysis.high_risk_elements > 0
                        THEN << [about |-> "high_risk", count |-> analysis.high_risk_elements] >>
                        ELSE <<>>)
                    \o (IF analysis.safe_elements > 0
                        THEN << [about |-> "safe", count |-> analysis.safe_elements] >>
                        ELSE <<>>),
                !.compliance_status =
                    IF total_risky = 0 THEN "FULLY_COMPLIANT"
                    ELSE IF total_risky <= 2 THEN "CONDITIONALLY_COMPLIANT"
                    ELSE "NON_COMPLIANT"],
         log |-> looped.log,
         now |-> looped.now]
        Counted(looped, analysis) ==
            Checked(looped, analysis,
                    analysis.forbidden_elements + analysis.high_risk_elements)
        Looped(looped) == Counted(looped, looped.report.safety_analysis)
    IN  Looped(ReportElements(elements, [report |-> report, log |-> log, now |-> now]))

\* bound on the number of calls made to the manager
MaxCalls == 2

\* an element as the scanner describes it to the manager
SafetyElement(rid, text, class_name, clickable, password) ==
    [resource_id |-> rid, text |-> text, content_desc |-> <<>>,
     class_name |-> class_name, clickable |-> clickable, password |-> password,
     locators |-> IF rid = None \/ rid = <<>> THEN EmptyDict
                  ELSE [resource_id |-> << rid >>]]

\* lines 488-494: the password field the module validates when it is run
PasswordField ==
    SafetyElement(<<"c","h",".","b","s","c","t",".","e","b","a","n","k","i","n","g",".","m","o","b","i","l","e",":","i","d","/","p","a","s","s","w","o","r","d","_","f","i","e","l","d">>, <<"E","n","t","e","r"," ","P","a","s","s","w","o","r","d">>,
                  <<"a","n","d","r","o","i","d",".","w","i","d","g","e","t",".","E","d","i","t","T","e","x","t">>, TRUE, TRUE)

MenuButton ==
    SafetyElement(<<"a","p","p",":","i","d","/","m","e","n","u">>, <<"M","e","n","u">>, <<"a","n","d","r","o","i","d",".","w","i","d","g","e","t",".","B","u","t","t","o","n">>, TRUE, FALSE)

CvvLabel ==
    SafetyElement(<<"a","p","p",":","i","d","/","c","v","v","_","h","i","n","t">>, <<>>, <<"a","n","d","r","o","i","d",".","w","i","d","g","e","t",".","T","e","x","t","V","i","e","w">>, FALSE, FALSE)

ConfirmButton ==
    SafetyElement(<<"a","p","p",":","i","d","/","o","k">>, <<"C","o","n","f","i","r","m">>, <<"a","n","d","r","o","i","d",".","w","i","d","g","e","t",".","B","u","t","t","o","n">>, TRUE, FALSE)

\* an element whose resource id was never read
RawElement ==
    SafetyElement(None, <<"H","e","l","p">>, <<"a","n","d","r","o","i","d",".","w","i","d","g","e","t",".","T","e","x","t","V","i","e","w">>, FALSE, FALSE)

SafetyElements == { PasswordField, MenuButton, CvvLabel, ConfirmButton, RawElement }

\* the action types validate_test_action is called with
ActionTypes == { <<"t","a","p">>, <<"t","y","p","e">>, <<"t","a","p","_","t","r","a","n","s","f","e","r","_","b","u","t","t","o","n">> }

\* the element lists of the scans a report is asked for
ScannedLists ==
    { <<>>, << MenuButton >>, << CvvLabel >>, << ConfirmButton >>,
      << PasswordField >>, << MenuButton, ConfirmButton, CvvLabel >>,
      << ConfirmButton, ConfirmButton, ConfirmButton >>,
      << MenuButton, RawElement >> }

\* the log after n validations of the menu button by a new manager
PastLog(n) ==
    [k \in 1..n |->
        [timestamp |-> k,
         element_id |-> MenuButton.resource_id,
         element_text |-> MenuButton.text,
         safety_level |-> "SAFE",
         is_safe |-> TRUE,
         violations |-> <<>>,
         warnings |-> <<>>]]

\* the lengths of the log the manager is taken up at
PastLogLengths == { 0, AuditLogLimit - 1, AuditLogLimit }

-----------------------------------------------------------------------------
(* States in which a part of the program is not in use *)

IdleProcess ==
    /\ element_data = <<>>
    /\ element_info = <<>>
    /\ proc_pc = "idle"

IdleScan ==
    /\ screen = <<>>
    /\ interactive_elements = <<>>
    /\ xml_elements = <<>>
    /\ pattern_elements = <<>>
    /\ all_elements = <<>>
    /\ scan_results = <<>>
    /\ scan_pc = "idle"

IdleRun ==
    /\ test_case = <<>>
    /\ results = <<>>
    /\ run_pc = "idle"
    /\ step_i = 0
    /\ session_log = <<>>
    /\ progress_callback = FALSE
    /\ progress_log = <<>>

IdleStep ==
    /\ step_arg = <<>>
    /\ view = <<>>
    /\ session = <<>>
    /\ found_index = -1
    /\ step_result = <<>>
    /\ element_ops = <<>>
    /\ step_pc = "idle"

IdleBuilder ==
    /\ heap = <<>>
    /\ test_steps = 0
    /\ last_op = <<>>
    /\ built_case = <<>>
    /\ built_steps = <<>>
    /\ worker_pc = "none"
    /\ worker_i = 0
    /\ worker_seen = <<>>

IdleApp ==
    /\ app_driver = FALSE
    /\ app_test_runner = FALSE
    /\ connect_btn = "idle"
    /\ disconnect_btn = "idle"
    /\ has_steps = FALSE
    /\ threads = <<>>
    /\ dialog = "idle"

IdleSafety ==
    /\ audit_log = <<>>
    /\ clock = 0
    /\ calls = 0
    /\ safety_call = <<>>

-----------------------------------------------------------------------------
(* _process_element applied to one element *)

InitProcess ==
    /\ element_data \in ProcessData
    /\ element_info = NotProcessed
    /\ proc_pc = "start"
    /\ IdleScan
    /\ IdleRun
    /\ IdleStep
    /\ IdleBuilder
    /\ IdleApp
    /\ IdleSafety

DoProcessElement ==
    /\ proc_pc = "start"
    /\ element_info' = ProcessElement(element_data)
    /\ proc_pc' = "done"
    /\ UNCHANGED <<element_data, scanVars, runVars, stepVars, builderVars, appVars,
                   safetyVars>>

NextProcess == DoProcessElement

SpecProcess == InitProcess /\ [][NextProcess]_vars

-----------------------------------------------------------------------------
(* scan_current_screen on what the three discovery methods returned *)

InitScan ==
    /\ \E a, b, c \in 0..MaxElements :
        /\ a + b + c <= MaxElements
        /\ interactive_elements \in [1..a -> InteractiveData]
        /\ xml_elements \in [1..b -> XmlData]
        /\ pattern_elements \in [1..c -> PatternData]
    /\ screen = <<>>
    /\ all_elements = <<>>
    /\ scan_results = NewScanResults
    /\ scan_pc = "start"
    /\ IdleProcess
    /\ IdleRun
    /\ IdleStep
    /\ IdleBuilder
    /\ IdleApp
    /\ IdleSafety

ScanCurrentScreen ==
    /\ scan_pc = "start"
    /\ all_elements' = MergeAndDeduplicate(
            << interactive_elements, xml_elements, pattern_elements >>)
    /\ \E processed_elements \in { ProcessAll(all_elements') } :
          scan_results' = ScanResults(processed_elements)
    /\ scan_pc' = "done"
    /\ UNCHANGED <<screen, interactive_elements, xml_elements, pattern_elements,
                   procVars, runVars, stepVars, builderVars, appVars,
                   safetyVars>>

NextScan == ScanCurrentScreen

SpecScan == InitScan /\ [][NextScan]_vars

-----------------------------------------------------------------------------
(* scan_current_screen on a session, some of whose queries raise *)

InitDiscover ==
    /\ screen \in Screens
    /\ interactive_elements = <<>>
    /\ xml_elements = <<>>
    /\ pattern_elements = <<>>
    /\ all_elements = <<>>
    /\ scan_results = NewScanResults
    /\ scan_pc = "start"
    /\ IdleProcess
    /\ IdleRun
    /\ IdleStep
    /\ IdleBuilder
    /\ IdleApp
    /\ IdleSafety

\* lines 106-110: the scan raised outside the discovery methods
ScanFailed == NewScanResults @@ [error |-> <<"S","c","r","e","e","n"," ","s","c","a","n","n","i","n","g"," ","f","a","i","l","e","d",":"," ">> \o SessionError]

\* lines 61-112.  _capture_screen_metadata and _take_screenshot keep what
\* the session raises to themselves; the read of driver.page_source at
\* line 70 is guarded by the try of the whole scan only.
DiscoverAndScan ==
    /\ scan_pc = "start"
    /\ IF "page_source" \in screen.failing
       THEN /\ scan_results' = ScanFailed
            /\ UNCHANGED <<interactive_elements, xml_elements, pattern_elements,
                           all_elements, appVars, safetyVars>>
       ELSE /\ interactive_elements' = FindInteractiveElements(screen)
            /\ xml_elements' = ParseXmlHierarchy(screen)
            /\ pattern_elements' = FindElementsByPatterns(screen)
            /\ all_elements' = MergeAndDeduplicate(
                    << interactive_elements', xml_elements', pattern_elements' >>)
            /\ \E processed_elements \in { ProcessAll(all_elements') } :
                  scan_results' = ScanResults(processed_elements)
    /\ scan_pc' = "done"
    /\ UNCHANGED <<screen, procVars, runVars, stepVars, builderVars, appVars,
                   safetyVars>>

NextDiscover == DiscoverAndScan

SpecDiscover == InitDiscover /\ [][NextDiscover]_vars

-----------------------------------------------------------------------------
(* execute_custom_test on one test case *)

InitRun ==
    /\ test_case \in TestCases
    /\ results = <<>>
    /\ run_pc = "start"
    /\ step_i = 0
    /\ session_log = <<>>
    /\ progress_callback \in BOOLEAN
    /\ progress_log = <<>>
    /\ IdleProcess
    /\ IdleScan
    /\ IdleStep
    /\ IdleBuilder
    /\ IdleApp
    /\ IdleSafety

\* lines 274-284: the results dict, the steps and their number
BeginTest ==
    /\ run_pc = "start"
    /\ results' = [test_name |-> test_case.name, steps |-> <<>>,
                   screenshots |-> <<>>, status |-> "RUNNING"]
    /\ step_i' = 1
    /\ run_pc' = IF Len(test_case.steps) = 0 THEN "status" ELSE "progress"
    /\ UNCHANGED <<test_case, session_log, progress_callback, progress_log,
                   procVars, scanVars, stepVars,
                   builderVars, appVars, safetyVars>>

\* the arguments of one call of the progress callback
ProgressCall(i, total_steps, description) ==
    [current |-> i, total |-> total_steps, description |-> description]

\* ReportProgress counting the steps from 0 (enumerate without its start)
ReportProgressFromZero ==
    /\ run_pc = "progress"
    /\ progress_log' =
            IF progress_callback
            THEN Append(progress_log,
                        ProgressCall(step_i - 1, Len(test_case.steps),
                                     test_case.steps[step_i].description))
            ELSE progress_log
    /\ run_pc' = "step"
    /\ UNCHANGED <<test_case, results, step_i, session_log, progress_callback,
                   procVars, scanVars, stepVars,
                   builderVars, appVars, safetyVars>>

\* lines 291-292: the progress callback, if there is one, is called and
\* returns
ReportProgress ==
    /\ run_pc = "progress"
    /\ progress_log' =
            IF progress_callback
            THEN Append(progress_log,
                        ProgressCall(step_i, Len(test_case.steps),
                                     test_case.steps[step_i].description))
            ELSE progress_log
    /\ run_pc' = "step"
    /\ UNCHANGED <<test_case, results, step_i, session_log, progress_callback,
                   procVars, scanVars, stepVars,
                   builderVars, appVars, safetyVars>>

\* ProgressRaises without the assignment of the status in the handler
ProgressRaisesStillRunning ==
    /\ run_pc = "progress"
    /\ progress_callback
    /\ progress_log' =
            Append(progress_log,
                   ProgressCall(step_i, Len(test_case.steps),
                                test_case.steps[step_i].description))
    /\ results' = results @@ [error |-> CallbackError, end_time |-> TRUE]
    /\ run_pc' = "done"
    /\ UNCHANGED <<test_case, step_i, session_log, progress_callback,
                   procVars, scanVars, stepVars,
                   builderVars, appVars, safetyVars>>

\* lines 291-292, 315-321: the progress callback raises; the exception
\* leaves the loop and is caught by the test-level handler
ProgressRaises ==
    /\ run_pc = "progress"
    /\ progress_callback
    /\ progress_log' =
            Append(progress_log,
                   ProgressCall(step_i, Len(test_case.steps),
                                test_case.steps[step_i].description))
    /\ results' = [results EXCEPT !.status = "ERROR"]
                    @@ [error |-> CallbackError, end_time |-> TRUE]
    /\ run_pc' = "done"
    /\ UNCHANGED <<test_case, step_i, session_log, progress_callback,
                   procVars, scanVars, stepVars,
                   builderVars, appVars, safetyVars>>

\* RunStep leaving the loop after a failed step
RunStepBreakOnFailure ==
    /\ run_pc = "step"
    /\ LET step == test_case.steps[step_i]
       IN  \E element \in ElementsFor(step), screenshot \in ScreenshotsFor(step) :
             LET r == ExecuteStep(step, element, screenshot)
             IN  /\ results' =
                        [results EXCEPT
                            !.steps = Append(@, r.result),
                            !.screenshots =
                                IF step.action \in ScreenshotActions /\ screenshot # None
                                THEN Append(@, screenshot) ELSE @]
                 /\ session_log' = session_log \o
                        [k \in 1..Len(r.ops) |-> [step |-> step_i, op |-> r.ops[k]]]
                 /\ run_pc' = IF step_i = Len(test_case.steps)
                                 \/ r.result.status = "failed"
                              THEN "status" ELSE "progress"
    /\ step_i' = step_i + 1
    /\ UNCHANGED <<test_case, progress_callback, progress_log,
                   procVars, scanVars, stepVars,
                   builderVars, appVars, safetyVars>>

\* lines 294-304: execute the step, record its result, take the screenshot
RunStep ==
    /\ run_pc = "step"
    /\ LET step == test_case.steps[step_i]
       IN  \E element \in ElementsFor(step), screenshot \in ScreenshotsFor(step) :
             LET r == ExecuteStep(step, element, screenshot)
             IN  /\ results' =
                        [results EXCEPT
                            !.steps = Append(@, r.result),
                            !.screenshots =
                                IF step.action \in ScreenshotActions /\ screenshot # None
                                THEN Append(@, screenshot) ELSE @]
                 /\ session_log' = session_log \o
                        [k \in 1..Len(r.ops) |-> [step |-> step_i, op |-> r.ops[k]]]
    /\ step_i' = step_i + 1
    /\ run_pc' = IF step_i = Len(test_case.steps) THEN "status" ELSE "progress"
    /\ UNCHANGED <<test_case, progress_callback, progress_log,
                   procVars, scanVars, stepVars,
                   builderVars, appVars, safetyVars>>

\* lines 306-313, 320-321: the overall status and the end time
DetermineStatus ==
    /\ run_pc = "status"
    /\ results' = [results EXCEPT !.status = OverallStatus(results.steps)]
                    @@ [end_time |-> TRUE]
    /\ run_pc' = "done"
    /\ UNCHANGED <<test_case, step_i, session_log, progress_callback,
                   progress_log, procVars, scanVars, stepVars,
                   builderVars, appVars, safetyVars>>

NextRun ==
    \/ BeginTest
    \/ ReportProgress
    \/ ProgressRaises
    \/ RunStep
    \/ DetermineStatus

SpecRun == InitRun /\ [][NextRun]_vars

-----------------------------------------------------------------------------
(* execute_step on one step: find_element_smart, then the action *)

\* bound on the number of elements in view
MaxView == 2

\* the elements a view is made of: the OK button of a dialog, a login
\* button, a button whose id names an OK button, a labelled text, an element
\* that went stale, and a disabled input field
ViewElements ==
    { ViewElement(<<"a","n","d","r","o","i","d",".","w","i","d","g","e","t",".","B","u","t","t","o","n">>, <<"a","n","d","r","o","i","d",":","i","d","/","b","u","t","t","o","n","1">>, <<"O","K">>, None,
                  TRUE, FALSE),
      ViewElement(<<"a","n","d","r","o","i","d",".","w","i","d","g","e","t",".","B","u","t","t","o","n">>, <<"a","p","p",":","i","d","/","l","o","g","i","n","_","b","t","n">>, <<"L","o","g","i","n">>, None,
                  TRUE, FALSE),
      ViewElement(<<"a","n","d","r","o","i","d",".","w","i","d","g","e","t",".","B","u","t","t","o","n">>, <<"o","k","_","b","u","t","t","o","n">>, <<"B","o","o","k">>, None,
                  TRUE, FALSE),
      ViewElement(<<"a","n","d","r","o","i","d",".","w","i","d","g","e","t",".","T","e","x","t","V","i","e","w">>, None, <<"O","K">>, <<"H","e","l","p">>,
                  TRUE, FALSE),
      ViewElement(<<"a","n","d","r","o","i","d",".","w","i","d","g","e","t",".","B","u","t","t","o","n">>, <<"a","p","p",":","i","d","/","l","o","g","i","n","_","b","t","n">>, <<"L","o","g","i","n">>, None,
                  TRUE, TRUE),
      ViewElement(<<"a","n","d","r","o","i","d",".","w","i","d","g","e","t",".","E","d","i","t","T","e","x","t">>, <<"a","p","p",":","i","d","/","f","i","e","l","d">>, None, None,
                  FALSE, FALSE) }

Views == UNION { [1..n -> ViewElements] : n \in 0..MaxView }

\* the (locator_strategy, locator_value) pairs of the steps
StepLocators ==
    { <<"id", <<"l","o","g","i","n","_","b","t","n">>>>, <<"id", <<"a","p","p",":","i","d","/","l","o","g","i","n","_","b","t","n">>>>,
      <<"id", <<"c","o","m",".","b","a","n","k",":","i","d","/","l","o","g","i","n","_","b","t","n">>>>, <<"id", <<"o","k","_","b","u","t","t","o","n">>>>,
      <<"id", <<>>>>, <<"accessibility_id", <<"H","e","l","p">>>>,
      <<"xpath", <<"/","/","*","[","@","t","e","x","t","=","'","O","K","'","]">>>>, <<"class", <<"a","n","d","r","o","i","d",".","w","i","d","g","e","t",".","E","d","i","t","T","e","x","t">>>>,
      <<"text", <<"L","o","g","i","n">>>> }

\* the (action, data) pairs of the steps; data is None for a step added
\* without data
StepActions ==
    { <<"click", None>>, <<"tap", None>>, <<"clear", None>>,
      <<"long_press", None>>, <<"type", None>>, <<"type", <<>>>>,
      <<"type", <<"a","b","c">>>>, <<"assert_exists", None>>, <<"assert_text", <<"O","K">>>>,
      <<"assert_enabled", None>>, <<"double_tap", None>>,
      <<"wait", <<"2">>>>, <<"wait", None>>, <<"swipe", <<"u","p">>>>,
      <<"screenshot", None>>, <<"assert_text", <<"o","k">>>>, <<"wait", <<"a","b","c">>>>,
      <<"swipe", <<"d","i","a","g","o","n","a","l">>>>, <<"swipe", None>> }

\* line 365: the actions for which find_element_smart is called
NeedsElement(action) == action \notin { "wait", "screenshot", "swipe" }

\* a step as add_step builds it, with its locator strategy
LocatedStep(action, locator_type, locator_value, data) ==
    [Step(action, locator_value, data) EXCEPT !.locator_strategy = locator_type]

StepArgs ==
    { LocatedStep(a[1], l[1], l[2], a[2]) : a \in StepActions, l \in StepLocators }

\* how the session behaves while the step runs: whether its lookups raise,
\* whether the calls that act on it raise, and what take_screenshot returns
Sessions ==
    [lookups_fail : BOOLEAN, actions_fail : BOOLEAN,
     screenshot : { None, ScreenshotPath }]

\* ResolvedHandle giving a handle when nothing was found
ResolvedHandleNeverNone(elements, index, actions_fail) ==
    IF index = 0 THEN Handle(<<>>, TRUE, actions_fail)
    ELSE Handle(OrEmpty(elements[index].text), elements[index].enabled,
                actions_fail)

\* lines 367-373: the element execute_step goes on with
ResolvedHandle(elements, index, actions_fail) ==
    IF index = 0 THEN NoElement
    ELSE Handle(OrEmpty(elements[index].text), elements[index].enabled,
                actions_fail)

InitStep ==
    /\ step_arg \in StepArgs
    /\ view \in Views
    /\ session \in Sessions
    \* what the step never asks of the session is left out
    /\ ~NeedsElement(step_arg.action) =>
            /\ view = <<>>
            /\ ~session.lookups_fail
            /\ step_arg.locator_value = <<>>
    /\ step_arg.action # "screenshot" => session.screenshot = None
    /\ step_arg.action \in { "wait", "screenshot", "assert_exists", "double_tap" }
            => ~session.actions_fail
    /\ found_index = -1
    /\ step_result = <<>>
    /\ element_ops = <<>>
    /\ step_pc = "start"
    /\ IdleProcess
    /\ IdleScan
    /\ IdleRun
    /\ IdleBuilder
    /\ IdleApp
    /\ IdleSafety

\* lines 325-445
DoExecuteStep ==
    /\ step_pc = "start"
    /\ LET index == IF NeedsElement(step_arg.action)
                     THEN FindElementSmart(step_arg.locator_strategy,
                                           step_arg.locator_value, view,
                                           session.lookups_fail)
                     ELSE -1
           element == IF NeedsElement(step_arg.action)
                      THEN ResolvedHandle(view, index, session.actions_fail)
                      ELSE NoElement
           executed == ExecuteStep(step_arg, element, session.screenshot)
           \* line 359: the gestures of a swipe step, issued on the session
           swiped == IF step_arg.action = "swipe"
                     THEN PerformSwipe(step_arg.data, session.actions_fail)
                     ELSE <<>>
       IN  /\ found_index' = index
           /\ step_result' = executed.result
           /\ element_ops' = [k \in 1..Len(executed.ops) |->
                                [element |-> index, op |-> executed.ops[k]]]
                              \o [k \in 1..Len(swiped) |->
                                    [element |-> -1, op |-> swiped[k]]]
    /\ step_pc' = "done"
    /\ UNCHANGED <<step_arg, view, session, procVars, scanVars, runVars,
                   builderVars, appVars, safetyVars>>

NextStep == DoExecuteStep

SpecStep == InitStep /\ [][NextStep]_vars

-----------------------------------------------------------------------------
(* CustomTestBuilder, and the worker thread of run_custom_test             *)
(*                                                                         *)
(* Lists are objects: `heap` gives the steps each list object holds, and   *)
(* self.test_steps and the 'steps' of a test case are references to list   *)
(* objects, so that an operation on one list shows through every reference *)
(* to it.  A list no reference leads to is given back.                     *)

\* bound on the number of steps of the builder's list
MaxBuilderSteps == 3

\* the list objects: the builder's, a test case's, and one being created
ListIds == { 1, 2, 3 }

\* the position (from 1) Python's list indexing gives an index in a list
\* of `length` elements, 0 when it raises IndexError
PyIndex(length, index) ==
    IF 0 <= index /\ index < length THEN index + 1
    ELSE IF -length <= index /\ index < 0 THEN length + index + 1
    ELSE 0

\* del list[index]
PyDel(list, index) ==
    LET pos == PyIndex(Len(list), index)
    IN  IF pos = 0 THEN [list |-> list, raised |-> TRUE]
        ELSE [list |-> SubSeq(list, 1, pos - 1) \o SubSeq(list, pos + 1, Len(list)),
              raised |-> FALSE]

\* two assignments one after the other: the first overwrites the element
\* the second was to move
PySwapInSequence(list, i, j) ==
    LET pi == PyIndex(Len(list), i)
        pj == PyIndex(Len(list), j)
    IN  IF pi = 0 \/ pj = 0 THEN [list |-> list, raised |-> TRUE]
        ELSE [list |-> [list EXCEPT ![pi] = list[pj]], raised |-> FALSE]

\* list[i], list[j] = list[j], list[i]
PySwap(list, i, j) ==
    LET pi == PyIndex(Len(list), i)
        pj == PyIndex(Len(list), j)
    IN  IF pi = 0 \/ pj = 0 THEN [list |-> list, raised |-> TRUE]
        ELSE [list |-> [list EXCEPT ![pi] = list[pj], ![pj] = list[pi]],
              raised |-> FALSE]

\* no test case has been built
NoTestCase == [built |-> FALSE]

\* the lists some reference leads to
LiveLists(steps_ref, case) ==
    { steps_ref } \cup (IF case.built THEN { case.steps } ELSE {})

\* a list object no reference leads to
NewList(steps_ref, case) ==
    CHOOSE id \in ListIds : id \notin LiveLists(steps_ref, case)

\* the heap once the lists no reference leads to are given back
Collect(h, steps_ref, case) ==
    [id \in ListIds |-> IF id \in LiveLists(steps_ref, case) THEN h[id] ELSE <<>>]

\* the record of a builder operation: for an operation that takes an
\* index, the index and the steps of the list before it
Op(name, index, before, raised) ==
    [op |-> name, index |-> index, before |-> before, raised |-> raised]

\* the step dicts the builder is given: the lists hold references to them,
\* and no operation of the builder modifies a dict
BuilderSteps == { "step_a", "step_b" }

\* the indices the operations are called with: negative, within the list,
\* at its end and beyond it
Indices == (0 - 1)..MaxBuilderSteps

\* the step lists of the files load_test reads (a file without 'steps'
\* gives the empty list)
LoadedLists == { <<>>, <<"step_b">>, <<"step_b", "step_a">> }

InitBuilder ==
    /\ heap = [id \in ListIds |-> <<>>]
    /\ test_steps = 1
    /\ last_op = Op("__init__", 0, <<>>, FALSE)
    /\ built_case = NoTestCase
    /\ built_steps = <<>>
    /\ worker_pc = "idle"
    /\ worker_i = 0
    /\ worker_seen = <<>>
    /\ IdleProcess
    /\ IdleScan
    /\ IdleRun
    /\ IdleStep
    /\ IdleApp
    /\ IdleSafety

\* lines 126-139
AddStep ==
    /\ Len(heap[test_steps]) < MaxBuilderSteps
    /\ \E step \in BuilderSteps :
          heap' = [heap EXCEPT ![test_steps] = Append(@, step)]
    /\ last_op' = Op("add_step", 0, <<>>, FALSE)
    /\ UNCHANGED <<test_steps, built_case, built_steps, worker_pc, worker_i,
                   worker_seen, procVars, scanVars, runVars, stepVars,
                   appVars, safetyVars>>

\* RemoveStep without the check of the index
RemoveStepUnguarded ==
    /\ \E index \in Indices :
          LET deleted == PyDel(heap[test_steps], index)
          IN  /\ heap' = [heap EXCEPT ![test_steps] = deleted.list]
              /\ last_op' = Op("remove_step", index, heap[test_steps],
                               deleted.raised)
    /\ UNCHANGED <<test_steps, built_case, built_steps, worker_pc, worker_i,
                   worker_seen, procVars, scanVars, runVars, stepVars,
                   appVars, safetyVars>>

\* lines 141-144
RemoveStep ==
    /\ \E index \in Indices :
          LET deleted == PyDel(heap[test_steps], index)
          IN  IF 0 <= index /\ index < Len(heap[test_steps])
              THEN /\ heap' = [heap EXCEPT ![test_steps] = deleted.list]
                   /\ last_op' = Op("remove_step", index, heap[test_steps],
                                    deleted.raised)
              ELSE /\ heap' = heap
                   /\ last_op' = Op("remove_step", index, heap[test_steps], FALSE)
    /\ UNCHANGED <<test_steps, built_case, built_steps, worker_pc, worker_i,
                   worker_seen, procVars, scanVars, runVars, stepVars,
                   appVars, safetyVars>>

\* lines 146-149
MoveStepUp ==
    /\ \E index \in Indices :
          LET swapped == PySwap(heap[test_steps], index, index - 1)
          IN  IF 0 < index /\ index < Len(heap[test_steps])
              THEN /\ heap' = [heap EXCEPT ![test_steps] = swapped.list]
                   /\ last_op' = Op("move_step_up", index, heap[test_steps],
                                    swapped.raised)
              ELSE /\ heap' = heap
                   /\ last_op' = Op("move_step_up", index, heap[test_steps], FALSE)
    /\ UNCHANGED <<test_steps, built_case, built_steps, worker_pc, worker_i,
                   worker_seen, procVars, scanVars, runVars, stepVars,
                   appVars, safetyVars>>

\* lines 151-154
MoveStepDown ==
    /\ \E index \in Indices :
          LET swapped == PySwap(heap[test_steps], index, index + 1)
          IN  IF 0 <= index /\ index < Len(heap[test_steps]) - 1
              THEN /\ heap' = [heap EXCEPT ![test_steps] = swapped.list]
                   /\ last_op' = Op("move_step_down", index, heap[test_steps],
                                    swapped.raised)
              ELSE /\ heap' = heap
                   /\ last_op' = Op("move_step_down", index, heap[test_steps], FALSE)
    /\ UNCHANGED <<test_steps, built_case, built_steps, worker_pc, worker_i,
                   worker_seen, procVars, scanVars, runVars, stepVars,
                   appVars, safetyVars>>

\* lines 156-158: self.test_steps refers to a new, empty list
ClearSteps ==
    /\ test_steps' = NewList(test_steps, built_case)
    /\ heap' = Collect([heap EXCEPT ![test_steps'] = <<>>], test_steps', built_case)
    /\ last_op' = Op("clear_steps", 0, <<>>, FALSE)
    /\ UNCHANGED <<built_case, built_steps, worker_pc, worker_i, worker_seen,
                   procVars, scanVars, runVars, stepVars, appVars,
                   safetyVars>>

\* lines 175-180: self.test_steps refers to the list read from the file
LoadTest ==
    /\ test_steps' = NewList(test_steps, built_case)
    /\ \E steps \in LoadedLists :
          heap' = Collect([heap EXCEPT ![test_steps'] = steps], test_steps',
                          built_case)
    /\ last_op' = Op("load_test", 0, <<>>, FALSE)
    /\ UNCHANGED <<built_case, built_steps, worker_pc, worker_i, worker_seen,
                   procVars, scanVars, runVars, stepVars, appVars,
                   safetyVars>>

\* run_custom_test, lines 2025-2043: with steps in the builder, the worker
\* thread is started
StartRun ==
    /\ worker_pc \in { "idle", "done" }
    /\ heap[test_steps] # <<>>
    /\ worker_pc' = "building"
    /\ UNCHANGED <<heap, test_steps, last_op, built_case, built_steps, worker_i,
                   worker_seen, procVars, scanVars, runVars, stepVars,
                   appVars, safetyVars>>

\* BuildTestCase handing out the builder's own list (without .copy())
BuildTestCaseNoCopy ==
    /\ worker_pc = "building"
    /\ built_case' = [built |-> TRUE, name |-> <<"C","u","s","t","o","m"," ","T","e","s","t">>,
                      stop_on_failure |-> FALSE, steps |-> test_steps]
    /\ heap' = Collect(heap, test_steps, built_case')
    /\ built_steps' = heap[test_steps]
    /\ worker_pc' = "running"
    /\ worker_i' = 0
    /\ worker_seen' = <<>>
    /\ UNCHANGED <<test_steps, last_op, procVars, scanVars, runVars, stepVars,
                   appVars, safetyVars>>

\* the worker's call of build_test_case (lines 2037, 160-167): 'steps' is
\* a new list holding the steps of self.test_steps
BuildTestCase ==
    /\ worker_pc = "building"
    /\ LET copy == NewList(test_steps, NoTestCase)
       IN  /\ built_case' = [built |-> TRUE, name |-> <<"C","u","s","t","o","m"," ","T","e","s","t">>,
                             stop_on_failure |-> FALSE, steps |-> copy]
           /\ heap' = Collect([heap EXCEPT ![copy] = heap[test_steps]],
                              test_steps, built_case')
    /\ built_steps' = heap[test_steps]
    /\ worker_pc' = "running"
    /\ worker_i' = 0
    /\ worker_seen' = <<>>
    /\ UNCHANGED <<test_steps, last_op, procVars, scanVars, runVars, stepVars,
                   appVars, safetyVars>>

\* the worker's loop over the test case's steps (main.py 283-286) is given
\* the next step of the list, as the list is then
WorkerStep ==
    /\ worker_pc = "running"
    /\ worker_i < Len(heap[built_case.steps])
    /\ worker_seen' = Append(worker_seen, heap[built_case.steps][worker_i + 1])
    /\ worker_i' = worker_i + 1
    /\ UNCHANGED <<heap, test_steps, last_op, built_case, built_steps, worker_pc,
                   procVars, scanVars, runVars, stepVars, appVars,
                   safetyVars>>

\* the loop ends when the list has no further step
WorkerFinish ==
    /\ worker_pc = "running"
    /\ worker_i >= Len(heap[built_case.steps])
    /\ worker_pc' = "done"
    /\ UNCHANGED <<heap, test_steps, last_op, built_case, built_steps, worker_i,
                   worker_seen, procVars, scanVars, runVars, stepVars,
                   appVars, safetyVars>>

NextBuilder ==
    \/ AddStep
    \/ RemoveStep
    \/ MoveStepUp
    \/ MoveStepDown
    \/ ClearSteps
    \/ LoadTest
    \/ StartRun
    \/ BuildTestCase
    \/ WorkerStep
    \/ WorkerFinish

SpecBuilder == InitBuilder /\ [][NextBuilder]_vars

-----------------------------------------------------------------------------
(* BankingAutomationApp: the handlers of the window that start a worker    *)
(* thread, and the threads they started                                    *)

\* bound on the number of worker threads alive at once
MaxThreads == 3

\* the targets of the threads the handlers start
Targets == { "connect", "scan", "run_custom_test", "run_login_test" }

NoThreads == [target \in Targets |-> 0]

\* the threads alive
Alive(running) ==
    running["connect"] + running["scan"] + running["run_custom_test"]
        + running["run_login_test"]

\* threading.Thread(target=..., daemon=True).start()
StartThread(running, target) == [running EXCEPT ![target] = @ + 1]

InitApp ==
    /\ app_driver = FALSE
    /\ app_test_runner = FALSE
    /\ connect_btn = "normal"
    /\ disconnect_btn = "disabled"
    /\ has_steps \in BOOLEAN
    /\ threads = NoThreads
    /\ dialog = "none"
    /\ IdleProcess
    /\ IdleScan
    /\ IdleRun
    /\ IdleStep
    /\ IdleBuilder
    /\ IdleSafety

\* lines 1273-1327, called by the Connect button while it is enabled, with
\* a device id entered
ConnectDeviceWithProgress ==
    /\ connect_btn = "normal"
    /\ Alive(threads) < MaxThreads
    /\ connect_btn' = "disabled"
    /\ threads' = StartThread(threads, "connect")
    /\ dialog' = "none"
    /\ UNCHANGED <<app_driver, app_test_runner, disconnect_btn, has_steps,
                   procVars, scanVars, runVars, stepVars, builderVars,
                   safetyVars>>

\* lines 1315-1322 and 1329-1345: the session was created; the thread ends
ConnectSucceeds ==
    /\ threads["connect"] > 0
    /\ threads' = [threads EXCEPT !["connect"] = @ - 1]
    /\ app_driver' = TRUE
    /\ app_test_runner' = TRUE
    /\ connect_btn' = "disabled"
    /\ disconnect_btn' = "normal"
    /\ dialog' = "Connected to device successfully!"
    /\ UNCHANGED <<has_steps, procVars, scanVars, runVars, stepVars,
                   builderVars, safetyVars>>

\* lines 1324-1325 and 1347-1354: webdriver.Remote raised; the thread ends
ConnectFails ==
    /\ threads["connect"] > 0
    /\ threads' = [threads EXCEPT !["connect"] = @ - 1]
    /\ connect_btn' = "normal"
    /\ dialog' = "Failed to connect"
    /\ UNCHANGED <<app_driver, app_test_runner, disconnect_btn, has_steps,
                   procVars, scanVars, runVars, stepVars, builderVars,
                   safetyVars>>

\* lines 1356-1368, called by the Disconnect button while it is enabled
DisconnectDevice ==
    /\ disconnect_btn = "normal"
    /\ IF app_driver
       THEN /\ app_driver' = FALSE
            /\ app_test_runner' = FALSE
            /\ connect_btn' = "normal"
            /\ disconnect_btn' = "disabled"
       ELSE UNCHANGED <<app_driver, app_test_runner, connect_btn, disconnect_btn,
                   safetyVars>>
    /\ dialog' = "none"
    /\ UNCHANGED <<has_steps, threads, procVars, scanVars, runVars, stepVars,
                   builderVars, safetyVars>>

\* lines 1407-1491
DeepScanScreen ==
    /\ Alive(threads) < MaxThreads
    /\ IF ~app_driver
       THEN /\ dialog' = "Please connect to device first"
            /\ threads' = threads
       ELSE /\ dialog' = "none"
            /\ threads' = StartThread(threads, "scan")
    /\ UNCHANGED <<app_driver, app_test_runner, connect_btn, disconnect_btn,
                   has_steps, procVars, scanVars, runVars, stepVars,
                   builderVars, safetyVars>>

\* lines 2015-2043
RunCustomTest ==
    /\ Alive(threads) < MaxThreads
    /\ IF ~app_driver
       THEN /\ dialog' = "Connect to device first"
            /\ threads' = threads
       ELSE IF ~app_test_runner
       THEN /\ dialog' = "Test runner not initialized"
            /\ threads' = threads
       ELSE IF ~has_steps
       THEN /\ dialog' = "Please add test steps first"
            /\ threads' = threads
       ELSE /\ dialog' = "none"
            /\ threads' = StartThread(threads, "run_custom_test")
    /\ UNCHANGED <<app_driver, app_test_runner, connect_btn, disconnect_btn,
                   has_steps, procVars, scanVars, runVars, stepVars,
                   builderVars, safetyVars>>

\* lines 2077-2154
RunLoginTest ==
    /\ Alive(threads) < MaxThreads
    /\ IF ~app_driver \/ ~app_test_runner
       THEN /\ dialog' = "Connect to device first"
            /\ threads' = threads
       ELSE /\ dialog' = "none"
            /\ threads' = StartThread(threads, "run_login_test")
    /\ UNCHANGED <<app_driver, app_test_runner, connect_btn, disconnect_btn,
                   has_steps, procVars, scanVars, runVars, stepVars,
                   builderVars, safetyVars>>

\* the function a scan or run thread was started with returns (lines 1418-
\* 1489, 2036-2041, 2092-2152)
ThreadEnds ==
    /\ \E target \in Targets \ { "connect" } :
          /\ threads[target] > 0
          /\ threads' = [threads EXCEPT ![target] = @ - 1]
    /\ UNCHANGED <<app_driver, app_test_runner, connect_btn, disconnect_btn,
                   has_steps, dialog, procVars, scanVars, runVars, stepVars,
                   builderVars, safetyVars>>

NextApp ==
    \/ ConnectDeviceWithProgress
    \/ ConnectSucceeds
    \/ ConnectFails
    \/ DisconnectDevice
    \/ DeepScanScreen
    \/ RunCustomTest
    \/ RunLoginTest
    \/ ThreadEnds

SpecApp == InitApp /\ [][NextApp]_vars

-----------------------------------------------------------------------------
(* BankingSafetyManager: the calls made to one manager *)

InitSafety ==
    /\ \E n \in PastLogLengths :
          /\ audit_log = PastLog(n)
          /\ clock = n
    /\ calls = 0
    /\ safety_call = [name |-> "none"]
    /\ IdleProcess
    /\ IdleScan
    /\ IdleRun
    /\ IdleStep
    /\ IdleBuilder
    /\ IdleApp

\* lines 85-153
CallValidateElementSafety ==
    /\ calls < MaxCalls
    /\ \E info \in SafetyElements :
       \E validated \in { ValidateAndLog(audit_log, clock, info) } :
          /\ audit_log' = validated.log
          /\ clock' = validated.now
          /\ safety_call' = [name |-> "validate_element_safety",
                             element_info |-> info,
                             result |-> validated.result]
    /\ calls' = calls + 1
    /\ UNCHANGED <<procVars, scanVars, runVars, stepVars, builderVars, appVars>>

\* lines 252-318
CallValidateTestAction ==
    /\ calls < MaxCalls
    /\ \E action_type \in ActionTypes, info \in SafetyElements :
       \E validated \in { ValidateTestAction(audit_log, clock, action_type, info) } :
          /\ audit_log' = validated.log
          /\ clock' = validated.now
          /\ safety_call' = [name |-> "validate_test_action",
                             action_type |-> action_type,
                             element_info |-> info,
                             result |-> validated.result]
    /\ calls' = calls + 1
    /\ UNCHANGED <<procVars, scanVars, runVars, stepVars, builderVars, appVars>>

\* lines 334-418
CallGenerateSafetyReport ==
    /\ calls < MaxCalls
    /\ \E elements \in ScannedLists :
       \E reported \in { GenerateSafetyReport(audit_log, clock, elements) } :
          /\ audit_log' = reported.log
          /\ clock' = reported.now
          /\ safety_call' = [name |-> "generate_safety_report",
                             elements |-> elements,
                             result |-> reported.result]
    /\ calls' = calls + 1
    /\ UNCHANGED <<procVars, scanVars, runVars, stepVars, builderVars, appVars>>

\* lines 424-427
ClearAuditTrail ==
    /\ calls < MaxCalls
    /\ audit_log' = <<>>
    /\ safety_call' = [name |-> "clear_audit_trail"]
    /\ calls' = calls + 1
    /\ UNCHANGED <<clock, procVars, scanVars, runVars, stepVars, builderVars,
                   appVars>>

NextSafety ==
    \/ CallValidateElementSafety
    \/ CallValidateTestAction
    \/ CallGenerateSafetyReport
    \/ ClearAuditTrail

SpecSafety == InitSafety /\ [][NextSafety]_vars

-----------------------------------------------------------------------------
(* The whole program: one of its operations is under way *)

Init == InitProcess \/ InitScan \/ InitDiscover \/ InitRun \/ InitStep
            \/ InitBuilder \/ InitApp \/ InitSafety

Next == NextProcess \/ NextScan \/ NextDiscover \/ NextRun \/ NextStep
            \/ NextBuilder \/ NextApp \/ NextSafety

Spec == Init /\ [][Next]_vars

-----------------------------------------------------------------------------
(* Properties of _process_element (SpecProcess) *)

\* _process_element has returned an element
Processed == proc_pc = "done" /\ element_info.processed

\* some keyword of `patterns` occurs in one of the given texts, lowercased
KeywordIn(patterns, texts) ==
    \E i \in 1..Len(patterns), s \in texts : Contains(patterns[i], Lower(s))

\* the level the ordered rules give for an element without the password
\* flag, the keywords being looked for in `texts`
RuleLevel(info, texts) ==
    IF KeywordIn(HIGH_RISK_PATTERNS, texts) THEN "HIGH_RISK"
    ELSE IF KeywordIn(MEDIUM_RISK_PATTERNS, texts) THEN "MEDIUM_RISK"
    ELSE IF KeywordIn(LOW_RISK_PATTERNS, texts) THEN "LOW_RISK"
    ELSE IF info.clickable \/ Contains(<<"E","d","i","t","T","e","x","t">>, info.class_name) THEN "UNKNOWN"
    ELSE "SAFE"

\* C1: every element whose password flag is true is classified HIGH_RISK,
\* whatever its resource id, text, accessibility description, class name
\* and clickable flag.
C1_PasswordIsHighRisk ==
    (Processed /\ element_info.password)
        => element_info.safety_classification.level = "HIGH_RISK"

\* C8: recommended follows the precedence resource id, else accessibility
\* id, else text, else class name; with a non-empty resource id it is the
\* resource-id kind, and it is never the combined expression.
C8_RecommendedPrecedence ==
    Processed =>
        /\ element_info.locators.recommended =
                IF element_info.resource_id # <<>> THEN "resource_id"
                ELSE IF element_info.content_desc # <<>> THEN "accessibility_id"
                ELSE IF element_info.text # <<>> THEN "text"
                ELSE "class_name"
        /\ element_info.locators.recommended # "xpath_combined"

\* C8 witness: an element without resource id, with accessibility
\* description, text and a combined expression, has been processed.
C8_Witness ==
    /\ Processed
    /\ element_info.resource_id = <<>>
    /\ element_info.content_desc # <<>>
    /\ element_info.text # <<>>
    /\ "xpath_combined" \in DOMAIN element_info.locators
    /\ element_info.locators.recommended = "accessibility_id"

\* C9: the recommended key of every element's locators names a locator
\* present in them with a non-empty value, also when resource id,
\* accessibility description, text and class name are all empty.
C9_RecommendedIsUsable ==
    Processed =>
        /\ element_info.locators.recommended \in
                DOMAIN element_info.locators \ { "recommended" }
        /\ element_info.locators[element_info.locators.recommended] # <<>>

\* C10 as claimed: without the password flag the level is the one the
\* ordered keyword rules give over resource id, text and accessibility
\* description only, the class name deciding nothing but UNKNOWN or SAFE.
C10_KeywordRulesWithoutClassName ==
    (Processed /\ ~element_info.password)
        => element_info.safety_classification.level =
             RuleLevel(element_info,
                       { element_info.resource_id, element_info.text,
                         element_info.content_desc })

\* C10 as amended: without the password flag the level is the one the
\* ordered keyword rules (HIGH_RISK, else MEDIUM_RISK, else LOW_RISK, else
\* UNKNOWN with requires_review for a clickable or EditText element, else
\* SAFE) give over resource id, text, accessibility description and class
\* name, lowercased.
C10_KeywordRulesInOrder ==
    (Processed /\ ~element_info.password)
        => LET classification == element_info.safety_classification
           IN  /\ classification.level =
                     RuleLevel(element_info,
                               { element_info.resource_id, element_info.text,
                                 element_info.content_desc, element_info.class_name })
               /\ classification.level = "UNKNOWN"
                     => Get(classification, "requires_review", FALSE)

\* C10 witness: an element without the password flag whose only keyword is
\* in its class name ("pin" in "Spinner") has been classified HIGH_RISK,
\* and so has not been classified by its text alone.
C10_Witness ==
    /\ Processed
    /\ ~element_info.password
    /\ ~KeywordIn(HIGH_RISK_PATTERNS,
                  { element_info.resource_id, element_info.text,
                    element_info.content_desc })
    /\ KeywordIn(MEDIUM_RISK_PATTERNS, { element_info.text })
    /\ element_info.safety_classification.level = "HIGH_RISK"

\* C11: for every classification returned, automation_allowed is false if
\* and only if the level is HIGH_RISK or FORBIDDEN, and it is true for
\* MEDIUM_RISK, LOW_RISK, UNKNOWN and SAFE.
C11_AutomationAllowedByLevel ==
    Processed =>
        LET classification == element_info.safety_classification
        IN  /\ classification.level \in
                    { "FORBIDDEN", "HIGH_RISK", "MEDIUM_RISK", "LOW_RISK",
                      "UNKNOWN", "SAFE" }
            /\ (classification.automation_allowed = FALSE)
                    <=> classification.level \in { "HIGH_RISK", "FORBIDDEN" }
            /\ classification.level \in
                    { "MEDIUM_RISK", "LOW_RISK", "UNKNOWN", "SAFE" }
                    => classification.automation_allowed = TRUE

\* C11 witness: a password field without any keyword has been classified
\* HIGH_RISK by its flag, with automation not allowed.
C11_Witness ==
    /\ Processed
    /\ element_info.password
    /\ element_info.safety_classification.reason = <<"P","a","s","s","w","o","r","d"," ","i","n","p","u","t"," ","f","i","e","l","d">>
    /\ element_info.safety_classification.level = "HIGH_RISK"
    /\ ~element_info.safety_classification.automation_allowed

-----------------------------------------------------------------------------
(* Properties of _merge_and_deduplicate (SpecScan) *)

ScanDone == scan_pc = "done"

\* the lists the discovery methods returned
DiscoveredLists == << interactive_elements, xml_elements, pattern_elements >>

\* the (bounds, resourceId, text) tuple of a discovered element, as the
\* element reports the three attributes
KeyTuple(element) ==
    << RawAttribute(element, "bounds"), RawAttribute(element, "resource_id"),
       RawAttribute(element, "text") >>

\* the elements of `items` that can be read, each tuple's first occurrence only
RECURSIVE FirstOccurrences(_, _)
FirstOccurrences(items, tuples) ==
    IF items = <<>> THEN <<>>
    ELSE IF Raises(Head(items).element) \/ KeyTuple(Head(items).element) \in tuples
    THEN FirstOccurrences(Tail(items), tuples)
    ELSE <<Head(items)>> \o
         FirstOccurrences(Tail(items), tuples \cup { KeyTuple(Head(items).element) })

\* C5: merge is idempotent and non-expanding: merge(X, X) = merge(X) and
\* Len(merge(X, Y)) <= Len(X) + Len(Y) for the discovered lists X and Y, and
\* merging the three lists with themselves gives what the scan's merge gave.
C5_MergeIdempotentNonExpanding ==
    /\ \A i \in 1..3 :
        LET X == DiscoveredLists[i]
        IN  MergeAndDeduplicate(<<X, X>>) = MergeAndDeduplicate(<<X>>)
    /\ \A i, j \in 1..3 :
        LET X == DiscoveredLists[i]
            Y == DiscoveredLists[j]
        IN  Len(MergeAndDeduplicate(<<X, Y>>)) <= Len(X) + Len(Y)
    /\ ScanDone =>
        /\ MergeAndDeduplicate(DiscoveredLists \o DiscoveredLists) = all_elements
        /\ Len(all_elements) <= Len(interactive_elements) + Len(xml_elements)
                                    + Len(pattern_elements)

\* C5 witness: the scan has merged two readable elements into one.
C5_Witness ==
    /\ ScanDone
    /\ Len(Flatten(DiscoveredLists)) = 2
    /\ \A i \in 1..2 : ~Raises(Flatten(DiscoveredLists)[i].element)
    /\ Len(all_elements) = 1

\* C6: two discovered elements are duplicates if and only if their
\* (bounds, resourceId, text) tuples are equal: the merge keeps the first
\* occurrence of every tuple and drops nothing else.
C6_DuplicatesIffEqualTuples ==
    ScanDone => all_elements = FirstOccurrences(Flatten(DiscoveredLists), {})

\* the on-screen element a handle or a page-source node stands for: its
\* bounds, resource id and text, an absent attribute being no text
OnScreen(element) ==
    << OrEmpty(element.bounds), OrEmpty(element.resource_id), OrEmpty(element.text) >>

\* C7: the same on-screen element found as a live handle and as a node of
\* the page source gets the same key, so the two records never both
\* survive the merge.
C7_KeyStableAcrossMethods ==
    ScanDone =>
        \A i, j \in 1..Len(all_elements) :
            (/\ IsWebDriverElement(all_elements[i].element)
             /\ ~IsWebDriverElement(all_elements[j].element))
                => OnScreen(all_elements[i].element) # OnScreen(all_elements[j].element)

-----------------------------------------------------------------------------
(* Properties of execute_custom_test (SpecRun) *)

\* execute_custom_test has returned without an orchestration-level exception
RunEnded == run_pc = "done" /\ results.status # "ERROR"

Passed(k) == results.steps[k].status = "passed"
Failed(k) == results.steps[k].status = "failed"

\* C2: with stop_on_failure the run halts after the first failed step: if
\* that step is at position k the result holds exactly k step results and
\* the overall status is FAILED.
C2_StopOnFailureHalts ==
    (RunEnded /\ test_case.stop_on_failure)
        => \A k \in 1..Len(results.steps) :
              (Failed(k) /\ \A j \in 1..(k - 1) : ~Failed(j))
                  => Len(results.steps) = k /\ results.status = "FAILED"

\* C3: without stop_on_failure every step is executed and recorded, in
\* order, also after failures, and a run with a passed and a failed step
\* has the overall status PARTIAL.
C3_AllStepsRunAndPartial ==
    (RunEnded /\ ~test_case.stop_on_failure)
        => /\ Len(results.steps) = Len(test_case.steps)
           /\ \A k \in 1..Len(results.steps) :
                results.steps[k].action = test_case.steps[k].action
           /\ ((\E k \in 1..Len(results.steps) : Passed(k))
                /\ (\E k \in 1..Len(results.steps) : Failed(k)))
                    => results.status = "PARTIAL"

\* C3 witness: a run without stop_on_failure of the steps [pass, fail, pass]
\* has returned.
C3_Witness ==
    /\ RunEnded
    /\ ~test_case.stop_on_failure
    /\ Len(results.steps) = 3
    /\ Passed(1) /\ Failed(2) /\ Passed(3)
    /\ results.status = "PARTIAL"

\* C4: the overall status of a run that ended without an orchestration-level
\* exception is PASSED when every executed step passed (an empty step list
\* gives PASSED with no step result), FAILED when no executed step passed
\* and at least one failed, and PARTIAL otherwise.
C4_OverallStatusDerivation ==
    RunEnded =>
        /\ results.status =
            IF \A k \in 1..Len(results.steps) : Passed(k) THEN "PASSED"
            ELSE IF (\A k \in 1..Len(results.steps) : ~Passed(k))
                    /\ (\E k \in 1..Len(results.steps) : Failed(k)) THEN "FAILED"
            ELSE "PARTIAL"
        /\ Len(test_case.steps) = 0
            => results.steps = <<>> /\ results.status = "PASSED"

\* C4 witness: a run in which both of two steps failed has returned FAILED.
C4_Witness ==
    /\ RunEnded
    /\ Len(results.steps) = 2
    /\ Failed(1) /\ Failed(2)
    /\ results.status = "FAILED"

\* the k-th recorded step result belongs to the k-th step of the test case
BelongsToStep(k) ==
    /\ results.steps[k].description = test_case.steps[k].description
    /\ results.steps[k].action = test_case.steps[k].action

\* C15: every run returns a complete result: at return it has an end time
\* and a final status among PASSED, PARTIAL, FAILED and ERROR, never the
\* initial RUNNING; an exception raised by the progress callback gives the
\* status ERROR with the error text attached and keeps the step results
\* recorded so far.
C15_RunReturnsCompleteResult ==
    run_pc = "done" =>
        /\ "end_time" \in DOMAIN results
        /\ results.status \in { "PASSED", "PARTIAL", "FAILED", "ERROR" }
        /\ results.status = "ERROR" =>
              /\ results.error = CallbackError
              /\ Len(results.steps) = step_i - 1
              /\ \A k \in 1..Len(results.steps) :
                    BelongsToStep(k) /\ (Passed(k) \/ Failed(k))

\* C15 witness: the progress callback raised before the third step; the
\* run has returned ERROR with the two step results recorded before.
C15_Witness ==
    /\ run_pc = "done"
    /\ results.status = "ERROR"
    /\ results.error = CallbackError
    /\ Len(test_case.steps) = 3
    /\ Len(results.steps) = 2
    /\ Passed(1) /\ Failed(2)

\* C16: the steps are executed strictly sequentially in list order: the
\* progress callback is called with (i, total, description of step i)
\* before step i starts, step i has finished before step i+1 starts, and
\* the i-th step result belongs to the i-th step.
C16_StepsRunSequentially ==
    run_pc \in { "progress", "step", "status", "done" } =>
        \* the results recorded are those of the first steps, in order
        /\ Len(results.steps) <= Len(test_case.steps)
        /\ \A k \in 1..Len(results.steps) : BelongsToStep(k)
        \* the operations on the session are in the order of the steps
        /\ \A m, n \in 1..Len(session_log) :
              m < n => session_log[m].step <= session_log[n].step
        /\ \A m \in 1..Len(session_log) :
              session_log[m].step <= Len(results.steps)
        \* before step i is called for, steps 1..i-1 have finished and been
        \* announced, and no later one has
        /\ run_pc = "progress" =>
              /\ Len(results.steps) = step_i - 1
              /\ progress_callback => Len(progress_log) = step_i - 1
        \* when step i starts, the callback has just been called for it
        /\ run_pc = "step" =>
              /\ Len(results.steps) = step_i - 1
              /\ progress_callback => Len(progress_log) = step_i
        /\ \A k \in 1..Len(progress_log) :
              progress_log[k] =
                  ProgressCall(k, Len(test_case.steps),
                               test_case.steps[k].description)

\* C16 witness: a run with a progress callback of three steps with three
\* different descriptions has returned, the callback called three times.
C16_Witness ==
    /\ RunEnded
    /\ progress_callback
    /\ Len(results.steps) = 3
    /\ Len(progress_log) = 3
    /\ Cardinality({ test_case.steps[k].description : k \in 1..3 }) = 3
    /\ Len(session_log) >= 3

-----------------------------------------------------------------------------
(* Properties of execute_step and find_element_smart (SpecStep) *)

\* execute_step has returned
StepDone == step_pc = "done"

\* the step's data is empty: the empty string, or None as add_step stores
\* it for a step added without data
EmptyData == step_arg.data = None \/ step_arg.data = <<>>

\* the operations that act on an element
ActionOperations == { "click", "clear", "send_keys", "long_press" }

\* C12 as claimed: a type step whose data is empty ends FAILED with a
\* message saying that no input was provided, whether or not the element
\* resolves, and no text is sent to the element.
C12_EmptyTypeSaysNoInput ==
    (StepDone /\ step_arg.action = "type" /\ EmptyData) =>
        /\ step_result.status = "failed"
        /\ step_result.message = <<"N","o"," ","t","e","x","t"," ","p","r","o","v","i","d","e","d"," ","t","o"," ","t","y","p","e">>
        /\ \A k \in 1..Len(element_ops) : element_ops[k].op # "send_keys"

\* C12 as amended: a type step whose data is empty ends FAILED and no text
\* is sent to the element; the message says that no text was provided when
\* the element resolved and clearing it did not raise, it is the
\* element-not-found message when resolution failed, and it carries the
\* exception text when clearing raised.
C12_EmptyTypeFails ==
    (StepDone /\ step_arg.action = "type" /\ EmptyData) =>
        /\ step_result.status = "failed"
        /\ \A k \in 1..Len(element_ops) : element_ops[k].op # "send_keys"
        /\ step_result.message =
              IF found_index = 0
              THEN <<"E","l","e","m","e","n","t"," ","n","o","t"," ","f","o","u","n","d",":"," ">> \o step_arg.locator_value
              ELSE IF session.actions_fail
              THEN <<"F","a","i","l","e","d"," ","t","o"," ","t","y","p","e",":"," ">> \o SessionError
              ELSE <<"N","o"," ","t","e","x","t"," ","p","r","o","v","i","d","e","d"," ","t","o"," ","t","y","p","e">>

\* C12 witness: a type step added without data whose element resolved and
\* was cleared has failed for want of text.
C12_Witness ==
    /\ StepDone
    /\ step_arg.action = "type"
    /\ step_arg.data = None
    /\ found_index > 0
    /\ element_ops = << [element |-> found_index, op |-> "clear"] >>
    /\ step_result.status = "failed"
    /\ step_result.message = <<"N","o"," ","t","e","x","t"," ","p","r","o","v","i","d","e","d"," ","t","o"," ","t","y","p","e">>

\* C13: for every action that requires an element, when resolution finds
\* nothing the step ends FAILED with the message "element not found:
\* <value>" (compared without regard to case) and no operation is invoked on
\* any element; an operation is only ever invoked on the element that
\* resolution returned.
C13_NotFoundFailsWithoutAction ==
    (StepDone /\ NeedsElement(step_arg.action)) =>
        /\ found_index = 0 =>
              /\ step_result.status = "failed"
              /\ Lower(step_result.message) =
                    <<"e","l","e","m","e","n","t"," ","n","o","t"," ","f","o","u","n","d",":"," ">> \o Lower(step_arg.locator_value)
              /\ element_ops = <<>>
        /\ \A k \in 1..Len(element_ops) :
              /\ element_ops[k].op \in ActionOperations
              /\ found_index \in 1..Len(view)
              /\ element_ops[k].element = found_index

\* C13 witness: a click whose locator matches none of the two elements in
\* view has failed, the session answering every lookup.
C13_Witness ==
    /\ StepDone
    /\ step_arg.action = "click"
    /\ Len(view) = 2
    /\ ~session.lookups_fail
    /\ found_index = 0
    /\ step_result.status = "failed"
    /\ element_ops = <<>>

\* the session raised while the step was resolving its element
RaisedInResolution == NeedsElement(step_arg.action) /\ session.lookups_fail

\* the session raised while the step was acting
RaisedInAction ==
    \/ /\ session.actions_fail
       /\ \/ step_arg.action = "swipe"
          \/ /\ found_index > 0
             /\ step_arg.action \in { "click", "tap", "type", "clear", "long_press",
                                      "assert_text", "assert_enabled" }
    \/ step_arg.action = "screenshot" /\ session.screenshot = None

\* C14: a step never propagates an exception: whatever the session raises
\* during resolution or during the action, the step returns a result whose
\* status is FAILED or ERROR, never 'unknown', and whose message carries
\* the exception's text.
C14_SessionErrorsBecomeFailures ==
    StepDone =>
        /\ step_result.status \in { "passed", "failed", "error" }
        /\ (RaisedInResolution \/ RaisedInAction) =>
              /\ step_result.status \in { "failed", "error" }
              /\ Contains(SessionError, step_result.message)

\* C17: whenever the primary lookup for (strategy, value) would find an
\* element, find_element_smart returns exactly that element.
C17_PrimaryLookupDecides ==
    (StepDone /\ NeedsElement(step_arg.action) /\ ~session.lookups_fail) =>
        LET primary == PrimaryLookup(step_arg.locator_strategy,
                                     step_arg.locator_value, view)
        IN  primary # 0 => found_index = primary

\* the trailing name of a target of the form namespace:id/name
TrailingNames(target) ==
    { SubSeq(target, i + 4, Len(target)) :
        i \in { n \in 1..Len(target) :
                    /\ n + 3 <= Len(target)
                    /\ SubSeq(target, n, n + 3) = <<":","i","d","/">>
                    /\ \A m \in (n + 1)..Len(target) :
                          m + 3 <= Len(target)
                            => SubSeq(target, m, m + 3) # <<":","i","d","/">> } }

\* the text `sub` occurs in the attribute (an absent attribute has no text)
OccursIn(sub, attribute) ==
    \E i \in 1..(Len(OrEmpty(attribute)) + 1), j \in 0..Len(OrEmpty(attribute)) :
        SubSeq(OrEmpty(attribute), i, j) = sub

\* element e, whose attributes can be read, matches the target
MatchesTarget(target, e) ==
    /\ ~e.stale
    /\ \/ OccursIn(target, e.resource_id)
       \/ OccursIn(target, e.text)
       \/ OccursIn(target, e.content_desc)
       \/ \E name \in TrailingNames(target) : OccursIn(name, e.resource_id)

\* C18: when the primary lookup finds nothing, find_element_smart returns
\* the first element in view order whose resource id, text or description
\* contains the target, or whose resource id contains the trailing name of
\* a target namespace:id/name, and None exactly when no element matches.
C18_FallbackFirstMatch ==
    (StepDone /\ NeedsElement(step_arg.action) /\ ~session.lookups_fail
        /\ PrimaryLookup(step_arg.locator_strategy, step_arg.locator_value,
                         view) = 0) =>
        LET matching == { i \in 1..Len(view) :
                            MatchesTarget(step_arg.locator_value, view[i]) }
        IN  /\ found_index = 0 <=> matching = {}
            /\ found_index # 0 =>
                  found_index \in matching
                    /\ \A i \in matching : found_index <= i

-----------------------------------------------------------------------------
(* Properties of CustomTestBuilder (SpecBuilder) *)

\* the index the last operation was called with is invalid for it: negative,
\* at or beyond the length of the list, or a move past an end of the list
InvalidIndex ==
    \/ last_op.index < 0
    \/ last_op.index >= Len(last_op.before)
    \/ last_op.op = "move_step_up" /\ last_op.index = 0
    \/ last_op.op = "move_step_down" /\ last_op.index = Len(last_op.before) - 1

\* C19: remove_step, move_step_up and move_step_down called with an invalid
\* index do not raise and leave the step list unchanged in length, order and
\* content.
C19_InvalidIndexIsNoOp ==
    (last_op.op \in { "remove_step", "move_step_up", "move_step_down" }
        /\ InvalidIndex) =>
        /\ ~last_op.raised
        /\ heap[test_steps] = last_op.before

\* C19 witness: move_step_down was called on the last of at least two
\* different steps, and remove_step could be called beyond the end.
C19_Witness ==
    /\ last_op.op = "move_step_down"
    /\ Len(last_op.before) >= 2
    /\ last_op.index = Len(last_op.before) - 1
    /\ last_op.before[1] # last_op.before[Len(last_op.before)]
    /\ heap[test_steps] = last_op.before

\* C20: the test case build_test_case returned is unaffected by later
\* operations of the builder: its step list stays what it was when it was
\* built, in length, order and content, and the worker executing it is
\* given exactly those steps, in order.
C20_BuiltCaseUnaffected ==
    built_case.built =>
        /\ heap[built_case.steps] = built_steps
        /\ worker_i <= Len(built_steps)
        /\ worker_seen = SubSeq(built_steps, 1, worker_i)
        /\ worker_pc = "done" => worker_seen = built_steps

\* C20 witness: while the worker was between the steps of a test case of two
\* steps, the builder's first step was removed.
C20_Witness ==
    /\ built_case.built
    /\ worker_pc = "running"
    /\ worker_i = 1
    /\ Len(built_steps) = 2
    /\ last_op.op = "remove_step"
    /\ last_op.index = 0
    /\ last_op.before = built_steps
    /\ heap[test_steps] # built_steps

\* the swipe gestures issued on the session by the step
SwipesIssued == { k \in 1..Len(element_ops) : element_ops[k].op = "swipe" }

\* C22: a wait step needs no element resolution and always ends PASSED,
\* unless its duration is invalid (not a number, or None as the builder
\* stores it for a step added without data), and then its status is ERROR.
C22_InvalidWaitIsError ==
    (StepDone /\ step_arg.action = "wait") =>
        /\ found_index = -1
        /\ element_ops = <<>>
        /\ ParsesAsFloat(step_arg.data) => step_result.status = "passed"
        /\ ~ParsesAsFloat(step_arg.data) => step_result.status = "error"

\* C23: a swipe step ends PASSED exactly when a swipe was issued on the
\* session and the session did not raise; when the session raises, or the
\* direction is none of up, down, left and right, the step ends FAILED or
\* ERROR.
C23_SwipePassedIffIssued ==
    (StepDone /\ step_arg.action = "swipe") =>
        /\ step_result.status \in { "passed", "failed", "error" }
        /\ step_result.status = "passed" <=> SwipesIssued # {}

\* C24: an assert_text step ends PASSED exactly when its element was
\* resolved and the text read from it equals the step's data character for
\* character; in every other case it ends FAILED.
C24_AssertTextExact ==
    (StepDone /\ step_arg.action = "assert_text") =>
        /\ element_ops = <<>>
        /\ step_result.status =
              IF /\ found_index \in 1..Len(view)
                 /\ ~session.actions_fail
                 /\ OrEmpty(view[found_index].text) = step_arg.data
              THEN "passed" ELSE "failed"

\* C24 witness: the element resolved reads "OK" where the step expects
\* "ok", and the step has failed on that difference alone.
C24_Witness ==
    /\ StepDone
    /\ step_arg.action = "assert_text"
    /\ step_arg.data = <<"o","k">>
    /\ found_index \in 1..Len(view)
    /\ ~session.actions_fail
    /\ view[found_index].text = <<"O","K">>
    /\ step_result.status = "failed"
    /\ step_result.message = <<"T","e","x","t",":"," ","O","K"," ","(","E","x","p","e","c","t","e","d",":"," ","o","k",")">>

\* the last operation of the builder was a move, of any index
MoveDone == last_op.op \in { "move_step_up", "move_step_down" }

\* the last operation was move_step_up with an index it accepts
ValidMoveUp ==
    /\ last_op.op = "move_step_up"
    /\ 0 < last_op.index
    /\ last_op.index < Len(last_op.before)

\* how often a step occurs in a list
Occurrences(list, step) == Cardinality({ k \in 1..Len(list) : list[k] = step })

\* C27: the move operations only permute the builder's list: after a move
\* the list has the length it had and holds every step as often as before;
\* a valid move_step_up(i) exchanges the steps at the (0-based) positions
\* i-1 and i and leaves every other position alone; and move_step_down(i-1)
\* right after a valid move_step_up(i) gives back the list as it was before
\* the two moves.
C27_MovesPermute ==
    /\ [](MoveDone =>
            /\ Len(heap[test_steps]) = Len(last_op.before)
            /\ \A step \in BuilderSteps :
                  Occurrences(heap[test_steps], step) = Occurrences(last_op.before, step))
    /\ [](ValidMoveUp =>
            /\ heap[test_steps][last_op.index] = last_op.before[last_op.index + 1]
            /\ heap[test_steps][last_op.index + 1] = last_op.before[last_op.index]
            /\ \A k \in 1..Len(last_op.before) :
                  k \notin { last_op.index, last_op.index + 1 }
                     => heap[test_steps][k] = last_op.before[k])
    /\ [][(/\ ValidMoveUp
           /\ last_op'.op = "move_step_down"
           /\ last_op'.index = last_op.index - 1)
             => heap'[test_steps'] = last_op.before]_vars

\* C27 witness: move_step_up(1) has exchanged the two different steps at
\* the head of a list of three.
C27_Witness ==
    /\ ValidMoveUp
    /\ last_op.index = 1
    /\ Len(last_op.before) = 3
    /\ last_op.before[1] # last_op.before[2]
    /\ heap[test_steps][1] = last_op.before[2]
    /\ heap[test_steps][2] = last_op.before[1]
    /\ heap[test_steps][3] = last_op.before[3]

\* the sum of the counts a dict of counts holds
RECURSIVE SumOfCounts(_)
SumOfCounts(dict) ==
    IF DOMAIN dict = {} THEN 0
    ELSE LET key == CHOOSE k \in DOMAIN dict : TRUE
         IN  dict[key] + SumOfCounts([k \in DOMAIN dict \ { key } |-> dict[k]])

\* the scan ran through: it returned elements and their statistics
ScanCompleted == ScanDone /\ "error" \notin DOMAIN scan_results

\* C26: the statistics of a scan partition its elements: total_elements is
\* the number of processed elements, the counts of by_safety_level, of
\* by_category and of by_interaction_type each sum to it, and so does
\* high_risk + requires_caution + safe_to_automate.
C26_StatisticsPartition ==
    ScanCompleted =>
        LET statistics == scan_results.statistics
            summary == statistics.automation_summary
        IN  /\ statistics.total_elements = Len(scan_results.elements)
            /\ SumOfCounts(statistics.by_safety_level) = statistics.total_elements
            /\ SumOfCounts(statistics.by_category) = statistics.total_elements
            /\ SumOfCounts(statistics.by_interaction_type) = statistics.total_elements
            /\ summary.high_risk + summary.requires_caution + summary.safe_to_automate
                  = statistics.total_elements

\* C26 witness: a scan of two elements, one of them high-risk and the other
\* not, of different categories and interaction types.
C26_Witness ==
    /\ ScanCompleted
    /\ scan_results.statistics.total_elements = 2
    /\ scan_results.statistics.automation_summary.high_risk = 1
    /\ Cardinality(DOMAIN scan_results.statistics.by_safety_level) = 2
    /\ Cardinality(DOMAIN scan_results.statistics.by_category) = 2
    /\ Cardinality(DOMAIN scan_results.statistics.by_interaction_type) = 2

\* the discovery queries of the scan that raised
FailedQueries == Cardinality(screen.failing) + Cardinality(screen.failing_xpaths)

\* the answers of a discovery method hold the element under the tag of the
\* query
Answered(answers, element, extra_info) ==
    \E k \in 1..Len(answers) :
        /\ answers[k].element = element
        /\ answers[k].extra_info = extra_info

\* every query that did not raise was run and its answer was kept
SucceedingQueriesRan ==
    \A n \in 1..Len(screen.page) :
        LET e == screen.page[n]
        IN  /\ ("clickable" \notin screen.failing /\ e.clickable = "true")
                  => Answered(interactive_elements, e, <<"c","l","i","c","k","a","b","l","e">>)
            /\ ("input" \notin screen.failing /\ e.tag = <<"a","n","d","r","o","i","d",".","w","i","d","g","e","t",".","E","d","i","t","T","e","x","t">>)
                  => Answered(interactive_elements, e, <<"i","n","p","u","t">>)
            /\ ("button" \notin screen.failing /\ e.tag = <<"a","n","d","r","o","i","d",".","w","i","d","g","e","t",".","B","u","t","t","o","n">>)
                  => Answered(interactive_elements, e, <<"b","u","t","t","o","n">>)
            /\ (screen.failing \cap { "page_source", "parse" } = {}
                    /\ HasUsefulAttributes(XmlNode(e)))
                  => \E k \in 1..Len(xml_elements) : xml_elements[k].element = XmlNode(e)
            /\ \A x \in 1..Len(banking_xpaths) :
                  (x \notin screen.failing_xpaths
                      /\ e[banking_xpaths[x].attr] # None
                      /\ Contains(banking_xpaths[x].sub, e[banking_xpaths[x].attr]))
                    => Answered(pattern_elements, e, XPathText(banking_xpaths[x]))

\* the places on screen of the elements the scan returned
ScannedBounds ==
    { scan_results.elements[k].bounds : k \in 1..Len(scan_results.elements) }

\* C21: a discovery query that fails (a query of the session that raises,
\* a page source that cannot be read or parsed) adds no element and one
\* warning string to the scan result; every other query is still run; the
\* scan returns the elements the succeeding queries found and is never
\* emptied by one failing source.
C21_FailingQueryIsIsolated ==
    ScanDone =>
        /\ "error" \notin DOMAIN scan_results
        /\ Len(scan_results.warnings) =
              Len(GenerateBankingWarnings(scan_results.elements)) + FailedQueries
        /\ SucceedingQueriesRan
        /\ \A k \in 1..Len(all_elements) :
              all_elements[k].element.bounds \in ScannedBounds

\* C25: at most one long-running operation (a scan, a test run, the connect
\* of the session) is executing on a worker thread at any time, whatever
\* the handlers the user calls and in whatever order.
C25_OneWorkerAtATime == Alive(threads) <= 1

\* the manager has returned from a call of the given method
Returned(name) == safety_call.name = name

\* C28: in every result of validate_element_safety, is_safe = false goes
\* with the safety level FORBIDDEN, or ERROR when the validation itself
\* raised: an element that breaks a forbidden resource-id, text-pattern or
\* class-name rule is never reported with a weaker level such as HIGH_RISK.
C28_UnsafeIsForbidden ==
    Returned("validate_element_safety") =>
        (~safety_call.result.is_safe =>
            safety_call.result.safety_level =
                IF ValidationRaises(safety_call.element_info)
                THEN "ERROR" ELSE "FORBIDDEN")

\* the elements of the scan the validation finds unsafe / safe but
\* high-risk
UnsafeElements(elements) ==
    { k \in 1..Len(elements) : ~ValidateElementSafety(elements[k]).is_safe }

HighRiskElements(elements) ==
    { k \in 1..Len(elements) :
        ValidateElementSafety(elements[k]).safety_level = "HIGH_RISK" }

\* C29: in every report generate_safety_report returns without an error,
\* compliance_status is NON_COMPLIANT when at least one element of the scan
\* is forbidden (is_safe = false), and it is FULLY_COMPLIANT only when the
\* scan has no forbidden and no high-risk element.
C29_ForbiddenIsNonCompliant ==
    (Returned("generate_safety_report") /\ "error" \notin DOMAIN safety_call.result) =>
        /\ UnsafeElements(safety_call.elements) # {}
              => safety_call.result.compliance_status = "NON_COMPLIANT"
        /\ safety_call.result.compliance_status = "FULLY_COMPLIANT"
              => /\ UnsafeElements(safety_call.elements) = {}
                 /\ HighRiskElements(safety_call.elements) = {}

\* a call other than clear_audit_trail after which the oldest entry of the
\* log is gone
Trimmed ==
    /\ safety_call'.name # "clear_audit_trail"
    /\ audit_log # <<>>
    /\ audit_log' # <<>>
    /\ audit_log'[1].timestamp > audit_log[1].timestamp

\* C30: the audit log stays bounded: after any sequence of calls of
\* validate_element_safety, validate_test_action and generate_safety_report
\* it never holds more than 1000 entries, and whenever it is trimmed the
\* 500 most recent entries are kept, in the order they were logged.
C30_AuditLogBounded ==
    /\ [](Len(audit_log) <= AuditLogLimit)
    /\ [][Trimmed =>
            /\ Len(audit_log') >= AuditLogKept
            /\ audit_log'[Len(audit_log')].timestamp = clock'
            /\ \A k \in 1..(Len(audit_log') - 1) :
                  audit_log'[k + 1].timestamp = audit_log'[k].timestamp + 1]_vars

=============================================================================
